---- MODULE Spec2Model ----
(***************************************************************************)
(* Model of the mbox-to-markdown converter (src/src/config.sample.ts):      *)
(* MboxParser.parseFile with the csplit split, parseEmail, parseHeaders,    *)
(* decodeHeader, cleanBody and isSelfEmail.  Text is modelled as TLA+       *)
(* strings, character by character, the way the TypeScript code handles it. *)
(***************************************************************************)
EXTENDS Integers, Sequences, FiniteSets, TLC

VARIABLES
    cfg,                \* identity configuration imported from ./config.ts
    archive,            \* content of the mbox file given to parseFile
    pc,                 \* position in parseFile / in the function under check
    tempDir,            \* "none" | "exists" | "removed" | "leftover"
    csplitRuns,         \* whether the csplit command can run and write its files
    pieces,             \* the files csplit wrote, in archive order
    blockIn,            \* parseEmail under check: its argument
    emailFiles,         \* parseFile: the listing, each entry [blk, content]
    i,                  \* parseFile: loop index
    emails,             \* parseFile: the records kept so far
    skippedSelfEmails,  \* parseFile: counter
    last,               \* what parseEmail computed for the latest block
    selfIn,             \* isSelfEmail under check: its argument
    selfOut,            \* isSelfEmail under check: its result
    strIn,              \* decodeHeader, cleanBody, parseDate under check: the argument
    strOut,             \* decodeHeader, cleanBody, parseDate under check: the result
    dateComments,       \* whether Date of this runtime reads over a "(...)" comment
    sinceDateStr,       \* main: args["since-date"]
    untilDateStr,       \* main: args["until-date"]
    parsed,             \* main: the emails parseFile returned, then filtered
    saved,              \* main: the emails given to saveEmailsAsMarkdown
    sourceFiles,        \* consolidation: emailFiles, the listing of SOURCE_DIR
    emailsPerFile,      \* consolidation: emailsPerFile
    batchStart,         \* consolidation: loop variable i
    fileCounter,        \* consolidation: fileCounter
    processedEmails,    \* consolidation: processedEmails
    batches,            \* consolidation: the chunks written, one per batch file
    outputFiles,        \* saveEmailsAsMarkdown: the files written, in order
    indexContent,       \* createIndexFile: the content of INDEX.md
    mdFiles,            \* grouping: emailFiles, the markdown files walk found
    chunkSize,          \* grouping: chunkSize
    threshold,          \* grouping: threshold, a fraction <<numerator, denominator>>
    chunkStart,         \* grouping: loop variable i of processEmailsInChunks
    chunkGroups,        \* grouping: what groupEmails gave for the latest chunk
    allGroups           \* grouping: allGroups

\* the state of MarkdownGenerator
generatorVars == <<outputFiles, indexContent>>

\* the state of the grouping script
groupingVars == <<mdFiles, chunkSize, threshold, chunkStart, chunkGroups, allGroups>>

\* the state of the date tools, of main and of the scripts
toolVars == <<strIn, strOut, dateComments, sinceDateStr, untilDateStr, parsed, saved,
              sourceFiles, emailsPerFile, batchStart, fileCounter, processedEmails,
              batches, generatorVars, groupingVars>>

\* the state of MboxParser, and that of what runs on its output
parserVars == <<cfg, archive, tempDir, csplitRuns, pieces, blockIn, emailFiles, i, emails,
                skippedSelfEmails, last, selfIn, selfOut, generatorVars, groupingVars>>

vars == <<cfg, archive, pc, tempDir, csplitRuns, pieces, blockIn, emailFiles, i, emails,
          skippedSelfEmails, last, selfIn, selfOut, toolVars>>

(***************************************************************************)
(* Bounds of the model.                                                     *)
(***************************************************************************)
MaxParts == 2       \* messages (or pieces of text) of an archive
MaxBlockLines == 4  \* lines of a block given to parseEmail on its own
MaxRecipients == 2  \* comma separated entries of a To field

(***************************************************************************)
(* JavaScript string primitives.  Indices are 0-based as in the source.     *)
(***************************************************************************)
Min(a, b) == IF a < b THEN a ELSE b
Max(a, b) == IF a > b THEN a ELSE b
MinOf(S) == CHOOSE k \in S : \A m \in S : k <= m
MaxOf(S) == CHOOSE k \in S : \A m \in S : k >= m

\* s.charAt(k), "" outside the string
CharAt(s, k) == IF k >= 0 /\ k < Len(s) THEN SubSeq(s, k + 1, k + 1) ELSE ""

\* s.substring(a, b) with both ends clamped
Substring(s, a, b) ==
    LET lo == Max(0, Min(a, Len(s)))
        hi == Max(0, Min(b, Len(s)))
    IN  SubSeq(s, Min(lo, hi) + 1, Max(lo, hi))

\* s.substring(a)
SubstringFrom(s, a) == Substring(s, a, Len(s))

\* s.startsWith(p)
StartsWith(s, p) == Len(s) >= Len(p) /\ SubSeq(s, 1, Len(p)) = p

\* s.indexOf(p, from): the first k >= from with p at k, or -1
IndexFrom(s, p, from) ==
    LET hits == {k \in from .. (Len(s) - Len(p)) : SubSeq(s, k + 1, k + Len(p)) = p}
    IN  IF hits = {} THEN -1 ELSE CHOOSE k \in hits : \A m \in hits : k <= m

\* s.indexOf(p)
IndexOf(s, p) == IndexFrom(s, p, 0)

\* s.includes(p)
Includes(s, p) == IndexOf(s, p) # -1

WhiteSpace == {" ", "\t", "\n", "\r", "\f"}

\* s.trim()
Trim(s) ==
    LET keep == {k \in 0 .. Len(s) - 1 : CharAt(s, k) \notin WhiteSpace}
    IN  IF keep = {} THEN ""
        ELSE LET lo == CHOOSE k \in keep : \A m \in keep : k <= m
                 hi == CHOOSE k \in keep : \A m \in keep : k >= m
             IN  Substring(s, lo, hi + 1)

UpperLetters == "ABCDEFGHIJKLMNOPQRSTUVWXYZ"
LowerLetters == "abcdefghijklmnopqrstuvwxyz"
Digits == "0123456789"

IsLetter(c) == Len(c) = 1 /\ (Includes(UpperLetters, c) \/ Includes(LowerLetters, c))
IsDigit(c) == Len(c) = 1 /\ Includes(Digits, c)

LowerChar(c) ==
    LET k == IndexOf(UpperLetters, c)
    IN  IF k = -1 THEN c ELSE CharAt(LowerLetters, k)

RECURSIVE ToLowerCase(_)
\* s.toLowerCase()
ToLowerCase(s) ==
    IF s = "" THEN "" ELSE LowerChar(CharAt(s, 0)) \o ToLowerCase(SubstringFrom(s, 1))

RECURSIVE Split(_, _)
\* s.split(sep) for a one-character separator
Split(s, sep) ==
    LET k == IndexOf(s, sep)
    IN  IF k = -1 THEN <<s>>
        ELSE <<Substring(s, 0, k)>> \o Split(SubstringFrom(s, k + 1), sep)

RECURSIVE Join(_, _)
\* parts.join(sep)
Join(parts, sep) ==
    IF Len(parts) = 0 THEN ""
    ELSE IF Len(parts) = 1 THEN parts[1]
    ELSE parts[1] \o sep \o Join(Tail(parts), sep)

\* parts.slice(a, b) on an array, 0-based, b exclusive
Slice(parts, a, b) == SubSeq(parts, a + 1, Min(b, Len(parts)))

RECURSIVE RemoveChars(_, _)
\* s.replace(/[...]/g, '') for a set of characters
RemoveChars(s, cs) ==
    IF s = "" THEN ""
    ELSE (IF CharAt(s, 0) \in cs THEN "" ELSE CharAt(s, 0))
         \o RemoveChars(SubstringFrom(s, 1), cs)

(***************************************************************************)
(* atob and String.fromCharCode, used by decodeHeader and cleanBody.        *)
(***************************************************************************)
Base64Alphabet == "ABCDEFGHIJKLMNOPQRSTUVWXYZabcdefghijklmnopqrstuvwxyz0123456789+/"
HexDigits == "0123456789ABCDEF"
\* the characters with codes 32 .. 95 and 97 .. 126, in code order
AsciiLow == " !\"#$%&'()*+,-./0123456789:;<=>?@ABCDEFGHIJKLMNOPQRSTUVWXYZ[\\]^_"
AsciiHigh == "abcdefghijklmnopqrstuvwxyz{|}~"

\* String.fromCharCode(n) for the codes a string of this module can hold; the
\* other codes (control characters, 96, 127 .. 255) are written "?".
FromCharCode(n) ==
    IF n >= 32 /\ n <= 95 THEN CharAt(AsciiLow, n - 32)
    ELSE IF n >= 97 /\ n <= 126 THEN CharAt(AsciiHigh, n - 97)
    ELSE IF n = 9 THEN "\t"
    ELSE IF n = 10 THEN "\n"
    ELSE IF n = 12 THEN "\f"
    ELSE IF n = 13 THEN "\r"
    ELSE "?"

AsciiWhiteSpace == {" ", "\t", "\n", "\f", "\r"}

\* the 6-bit values of a string of Base64 characters
SixBits(s) == [k \in 1 .. Len(s) |-> IndexOf(Base64Alphabet, SubSeq(s, k, k))]

RECURSIVE Base64Bytes(_)
\* the bytes that groups of 4 (or a last group of 2 or 3) sextets stand for
Base64Bytes(v) ==
    IF Len(v) < 2 THEN <<>>
    ELSE LET b1 == v[1] * 4 + (v[2] \div 16)
         IN  IF Len(v) = 2 THEN <<b1>>
             ELSE LET b2 == (v[2] % 16) * 16 + (v[3] \div 4)
                  IN  IF Len(v) = 3 THEN <<b1, b2>>
                      ELSE <<b1, b2, (v[3] % 4) * 64 + v[4]>>
                           \o Base64Bytes(SubSeq(v, 5, Len(v)))

RECURSIVE CharsOf(_)
CharsOf(bytes) ==
    IF Len(bytes) = 0 THEN "" ELSE FromCharCode(bytes[1]) \o CharsOf(Tail(bytes))

\* atob(data): [ok |-> FALSE] stands for the InvalidCharacterError it throws
Atob(data) ==
    LET d1 == RemoveChars(data, AsciiWhiteSpace)
        d2 == IF Len(d1) % 4 = 0 /\ Len(d1) > 0 /\ CharAt(d1, Len(d1) - 1) = "="
              THEN IF CharAt(d1, Len(d1) - 2) = "="
                   THEN Substring(d1, 0, Len(d1) - 2)
                   ELSE Substring(d1, 0, Len(d1) - 1)
              ELSE d1
        bad == \/ Len(d2) % 4 = 1
               \/ \E k \in 0 .. Len(d2) - 1 : ~Includes(Base64Alphabet, CharAt(d2, k))
    IN  IF bad THEN [ok |-> FALSE, text |-> ""]
        ELSE [ok |-> TRUE, text |-> CharsOf(Base64Bytes(SixBits(d2)))]

(***************************************************************************)
(* MboxParser.decodeHeader: /=\?[^?]+\?[BQ]\?([^?]+)\?=/gi replaced by      *)
(* atob(payload), the match kept when atob throws; then trim.               *)
(***************************************************************************)
\* The encoded word starting at p, if the pattern matches there:
\* [hit, payload, end], end being the index after the closing "?=".
EncodedWordAt(s, p) ==
    LET q1 == IndexFrom(s, "?", p + 2)        \* end of the charset
        q2 == IndexFrom(s, "?", q1 + 3)       \* end of the payload
        hit == /\ Substring(s, p, p + 2) = "=?"
               /\ q1 # -1 /\ q1 > p + 2
               /\ CharAt(s, q1 + 1) \in {"B", "Q", "b", "q"}
               /\ CharAt(s, q1 + 2) = "?"
               /\ q2 # -1 /\ q2 > q1 + 3
               /\ CharAt(s, q2 + 1) = "="
    IN  IF hit THEN [hit |-> TRUE, payload |-> Substring(s, q1 + 3, q2), end |-> q2 + 2]
        ELSE [hit |-> FALSE, payload |-> "", end |-> p + 1]

\* the replacement callback without its catch branch giving the match back
DecodeWordOrNothing(match, encoded) ==
    LET r == Atob(encoded) IN IF r.ok THEN r.text ELSE ""

\* the replacement callback of decodeHeader (lines 639-646)
DecodeWord(match, encoded) ==
    LET r == Atob(encoded) IN IF r.ok THEN r.text ELSE match

RECURSIVE ReplaceEncodedWords(_, _)

\* the text from p on, w being what the pattern finds at k
ReplaceWordAt(s, p, k, w) ==
    IF w.hit
    THEN Substring(s, p, k)
         \o DecodeWord(Substring(s, k, w.end), w.payload)
         \o ReplaceEncodedWords(s, w.end)
    ELSE Substring(s, p, k + 1) \o ReplaceEncodedWords(s, k + 1)

\* the text from p on, k being where the next match can start
ReplaceFromMark(s, p, k) ==
    IF k = -1 THEN SubstringFrom(s, p) ELSE ReplaceWordAt(s, p, k, EncodedWordAt(s, k))

\* the replace call of decodeHeader (lines 638-646), from index p on
ReplaceEncodedWords(s, p) == ReplaceFromMark(s, p, IndexFrom(s, "=?", p))

decodeHeader(value) == Trim(ReplaceEncodedWords(value, 0))

(***************************************************************************)
(* MboxParser.cleanBody.                                                    *)
(***************************************************************************)
RECURSIVE RemoveSoftBreaks(_)

\* the text without soft breaks, k being where the next match can start
SoftBreakAt(s, k) ==
    IF k = -1 THEN s
    ELSE IF Substring(s, k, k + 2) = "=\n"
    THEN Substring(s, 0, k) \o RemoveSoftBreaks(SubstringFrom(s, k + 2))
    ELSE IF Substring(s, k, k + 3) = "=\r\n"
    THEN Substring(s, 0, k) \o RemoveSoftBreaks(SubstringFrom(s, k + 3))
    ELSE Substring(s, 0, k + 1) \o RemoveSoftBreaks(SubstringFrom(s, k + 1))

\* .replace(/=\r?\n/g, '')
RemoveSoftBreaks(s) == SoftBreakAt(s, IndexOf(s, "="))

\* parseInt(hex, 16) for two upper-case hex digits
ParseHex2(h) == 16 * IndexOf(HexDigits, CharAt(h, 0)) + IndexOf(HexDigits, CharAt(h, 1))

\* line 654 left out: the escapes stay in the text
KeepHexEscapes(s) == s

RECURSIVE ReplaceHexEscapes(_)

\* the text with its escapes replaced, k being where the next match can start
HexEscapeAt(s, k) ==
    IF k = -1 THEN s
    ELSE IF /\ Len(s) >= k + 3
            /\ Includes(HexDigits, CharAt(s, k + 1))
            /\ Includes(HexDigits, CharAt(s, k + 2))
    THEN Substring(s, 0, k)
         \o FromCharCode(ParseHex2(Substring(s, k + 1, k + 3)))
         \o ReplaceHexEscapes(SubstringFrom(s, k + 3))
    ELSE Substring(s, 0, k + 1) \o ReplaceHexEscapes(SubstringFrom(s, k + 1))

\* .replace(/=([0-9A-F]{2})/g, (_m, hex) => String.fromCharCode(parseInt(hex, 16)))
ReplaceHexEscapes(s) == HexEscapeAt(s, IndexOf(s, "="))

cleanBody(body) == Trim(ReplaceHexEscapes(RemoveSoftBreaks(body)))

(***************************************************************************)
(* MboxParser.parseHeaders.  The header map is a function from the header   *)
(* names to their values.                                                   *)
(***************************************************************************)
EmptyHeaders == [k \in {} |-> ""]

\* headers[name] = value only when the name is new: the first write wins
PutHeaderOnce(headers, name, value) ==
    [k \in DOMAIN headers \cup {name} |->
        IF k \in DOMAIN headers THEN headers[k] ELSE value]

\* headers[name] = value
PutHeader(headers, name, value) ==
    [k \in DOMAIN headers \cup {name} |-> IF k = name THEN value ELSE headers[k]]

\* headers[name], "" standing for undefined: both are falsy where it is used
GetHeader(headers, name) == IF name \in DOMAIN headers THEN headers[name] ELSE ""

IsContinuation(line) == StartsWith(line, " ") \/ StartsWith(line, "\t")

\* "Save previous header if exists" (lines 614-616 and 628-630)
SaveHeader(st) ==
    IF st.currentHeader # ""
    THEN PutHeader(st.headers, st.currentHeader, decodeHeader(st.currentValue))
    ELSE st.headers

\* line 611 without the separating space
AppendNoSpace(currentValue, line) == currentValue \o Trim(line)

\* the branch for a continuation line (line 611)
AppendContinuation(currentValue, line) == currentValue \o " " \o Trim(line)

\* one iteration of the loop over the lines (lines 608-625)
HeaderLine(st, line) ==
    IF IsContinuation(line)
    THEN [st EXCEPT !.currentValue = AppendContinuation(st.currentValue, line)]
    ELSE LET colonIndex == IndexOf(line, ":")
         IN  IF colonIndex > 0
             THEN [headers |-> SaveHeader(st),
                   currentHeader |-> Trim(Substring(line, 0, colonIndex)),
                   currentValue |-> Trim(SubstringFrom(line, colonIndex + 1))]
             ELSE [st EXCEPT !.headers = SaveHeader(st)]

RECURSIVE HeaderLines(_, _)
HeaderLines(st, lines) ==
    IF Len(lines) = 0 THEN st ELSE HeaderLines(HeaderLine(st, lines[1]), Tail(lines))

parseHeaders(headerSection) ==
    SaveHeader(HeaderLines([headers |-> EmptyHeaders, currentHeader |-> "",
                            currentValue |-> ""],
                           Split(headerSection, "\n")))

(***************************************************************************)
(* MboxParser.parseEmail.                                                   *)
(***************************************************************************)
HeaderLineLimit == 200

\* One iteration of the fallback scan (lines 513-533) on line i, headerEndLine
\* being hel: the new headerEndLine and whether the loop breaks.
ScanLine(line, k, hel) ==
    IF IsContinuation(line) THEN [hel |-> hel, stop |-> FALSE]
    ELSE IF Includes(line, ":") /\ Len(line) < HeaderLineLimit
         THEN [hel |-> k, stop |-> FALSE]
    ELSE IF Trim(line) = "" THEN [hel |-> k, stop |-> TRUE]
    ELSE IF k > 0 /\ ~Includes(line, ":") THEN [hel |-> k - 1, stop |-> TRUE]
    ELSE [hel |-> hel, stop |-> FALSE]

RECURSIVE ScanHeaderEnd(_, _, _)
\* the loop of lines 513-533: [hel, stop], stop telling that it left by break
ScanHeaderEnd(contentLines, k, hel) ==
    IF k >= Len(contentLines) THEN [hel |-> hel, stop |-> FALSE]
    ELSE LET r == ScanLine(contentLines[k + 1], k, hel)
         IN  IF r.stop THEN r ELSE ScanHeaderEnd(contentLines, k + 1, r.hel)

\* a || b || c on strings
OrElse(a, b) == IF a # "" THEN a ELSE b

NoSender == "(No Sender)"
NoRecipient == "(No Recipient)"
NoSubject == "(No Subject)"

\* lines 486-493: the content after the "From " separator line
StripSeparator(block) ==
    LET lines == Split(block, "\n")
        startIndex == IF lines[1] # "" /\ StartsWith(lines[1], "From ")
                      THEN Len(lines[1]) + 1 ELSE 0
    IN  SubstringFrom(block, startIndex)

\* line 500 written with lastIndexOf
LastBlankLineIndex(content) ==
    LET hits == {k \in 0 .. Len(content) - 2 : Substring(content, k, k + 2) = "\n\n"}
    IN  IF hits = {} THEN -1 ELSE MaxOf(hits)

\* line 500: "Approach 1: Standard double newline"
BlankLineIndex(content) == IndexOf(content, "\n\n")

\* lines 540-541 without the last resort: no header section
NoLastResort(contentLines) == ""

\* lines 540-541: "Last resort: treat the first line as header"
LastResort(contentLines) == contentLines[1]

\* lines 495-544: [headerSection, body, path, atEnd]; path tells which approach
\* ran, atEnd that the fallback loop ran to the end of the lines
SplitHeaderBody(content) ==
    LET doubleNewlineIndex == BlankLineIndex(content)
        contentLines == Split(content, "\n")
        scan == ScanHeaderEnd(contentLines, 0, -1)
        headerEndLine == scan.hel
    IN  IF doubleNewlineIndex # -1
        THEN [headerSection |-> Substring(content, 0, doubleNewlineIndex),
              body |-> cleanBody(SubstringFrom(content, doubleNewlineIndex + 2)),
              path |-> "blankline", atEnd |-> FALSE]
        ELSE IF headerEndLine >= 0
        THEN [headerSection |-> Join(Slice(contentLines, 0, headerEndLine + 1), "\n"),
              body |-> cleanBody(Join(Slice(contentLines, headerEndLine + 1,
                                            Len(contentLines)), "\n")),
              path |-> "scan", atEnd |-> ~scan.stop]
        ELSE [headerSection |-> LastResort(contentLines),
              body |-> cleanBody(Join(Slice(contentLines, 1, Len(contentLines)), "\n")),
              path |-> "lastresort", atEnd |-> ~scan.stop]

\* line 566 written with && instead of ||
MissingBoth(from, to) == from = NoSender /\ to = NoRecipient

\* line 566: "Skip emails without basic required fields"
MissingRequired(from, to) == from = NoSender \/ to = NoRecipient

\* which return statement of parseEmail is taken (lines 547-553, 566-573, 598)
ReturnTaken(hb, from, to) ==
    IF hb.headerSection = "" THEN "noheaders"
    ELSE IF MissingRequired(from, to) THEN "missingfields"
    ELSE "parsed"

\* lines 559-598 once from and to are known: ok tells that a record is returned
\* (null otherwise), reason which return statement was taken; the other fields
\* are the locals of the function and the record's fields.
EmailOfFields(content, hb, headers, from, to, reason) ==
    [ok |-> reason = "parsed", reason |-> reason,
     content |-> content, headerSection |-> hb.headerSection,
     path |-> hb.path, atEnd |-> hb.atEnd,
     subject |-> OrElse(GetHeader(headers, "Subject"),
                        OrElse(GetHeader(headers, "subject"), NoSubject)),
     from |-> from, to |-> to,
     date |-> OrElse(GetHeader(headers, "Date"), GetHeader(headers, "date")),
     messageId |-> OrElse(GetHeader(headers, "Message-ID"),
                          OrElse(GetHeader(headers, "Message-Id"),
                                 GetHeader(headers, "message-id"))),
     body |-> hb.body, headers |-> headers]

\* lines 559-566: the header lookups with their fallbacks
EmailOfHeaders(content, hb, headers) ==
    LET from == OrElse(GetHeader(headers, "From"),
                       OrElse(GetHeader(headers, "from"), NoSender))
        to == OrElse(GetHeader(headers, "To"),
                     OrElse(GetHeader(headers, "to"), NoRecipient))
    IN  EmailOfFields(content, hb, headers, from, to, ReturnTaken(hb, from, to))

\* lines 547-556: no header section, or the parsed header section
EmailOfSections(content, hb) ==
    EmailOfHeaders(content, hb,
                   IF hb.headerSection = "" THEN EmptyHeaders
                   ELSE parseHeaders(hb.headerSection))

\* lines 495-598: parseEmail on the content after the separator line
EmailOfContent(content) == EmailOfSections(content, SplitHeaderBody(content))

\* parseEmail(block)
parseEmail(block) == EmailOfContent(StripSeparator(block))

(***************************************************************************)
(* MboxParser.extractEmail, extractName, extractEmails, extractNames.       *)
(* A result that may be null is a sequence: <<>> for null, <<s>> for s.     *)
(***************************************************************************)
Null == <<>>
Some(s) == <<s>>

IsLocalChar(c) == IsLetter(c) \/ IsDigit(c) \/ (Len(c) = 1 /\ Includes("._%+-", c))
IsDomainChar(c) == IsLetter(c) \/ IsDigit(c) \/ (Len(c) = 1 /\ Includes(".-", c))

\* field.match(/<([^>]+)>/): the text between the first "<" that is followed
\* by at least one character other than ">" and the next ">"
AngleMatch(field) ==
    LET starts == {p \in 0 .. Len(field) - 1 :
                      /\ CharAt(field, p) = "<"
                      /\ IndexFrom(field, ">", p + 1) > p + 1}
    IN  IF starts = {} THEN Null
        ELSE LET p == MinOf(starts)
             IN  Some(Substring(field, p + 1, IndexFrom(field, ">", p + 1)))

\* The match of [a-zA-Z0-9._%+-]+@[a-zA-Z0-9.-]+\.[a-zA-Z]{2,} around the "@"
\* at index a: <<>> when there is none, else <<[from, to]>>.
AddressAround(field, a) ==
    LET locals == {s \in 0 .. a - 1 : \A k \in s .. a - 1 : IsLocalChar(CharAt(field, k))}
        ends == {e \in a + 1 .. Len(field) :
                    \A k \in a + 1 .. e - 1 : IsDomainChar(CharAt(field, k))}
        runEnd == MaxOf(ends)
        dots == {k \in a + 2 .. runEnd - 1 :
                    /\ CharAt(field, k) = "."
                    /\ IsLetter(CharAt(field, k + 1))
                    /\ IsLetter(CharAt(field, k + 2))}
    IN  IF locals = {} \/ dots = {} THEN <<>>
        ELSE LET dot == MaxOf(dots)
                 tld == {e \in dot + 3 .. Len(field) :
                            \A k \in dot + 1 .. e - 1 : IsLetter(CharAt(field, k))}
             IN  <<[from |-> MinOf(locals), to |-> MaxOf(tld)]>>

\* field.match(/([a-zA-Z0-9._%+-]+@[a-zA-Z0-9.-]+\.[a-zA-Z]{2,})/)
BareAddressMatch(field) ==
    LET ats == {a \in 0 .. Len(field) - 1 :
                   CharAt(field, a) = "@" /\ AddressAround(field, a) # <<>>}
    IN  IF ats = {} THEN Null
        ELSE LET m == AddressAround(field, MinOf(ats))[1]
             IN  Some(Substring(field, m.from, m.to))

extractEmail(field) ==
    IF AngleMatch(field) # Null THEN AngleMatch(field) ELSE BareAddressMatch(field)

Quotes == {"'", "\""}

extractName(field) ==
    LET lt == IndexOf(field, "<")
    IN  IF lt >= 1 THEN Some(RemoveChars(Trim(Substring(field, 0, lt)), Quotes))
        ELSE IF ~Includes(field, "@") THEN Some(RemoveChars(Trim(field), Quotes))
        ELSE Null

\* field.split(','), each entry trimmed (lines 469-471, 477-479)
RecipientsOf(field) ==
    LET recipients == Split(field, ",")
    IN  {Trim(recipients[k]) : k \in 1 .. Len(recipients)}

\* recipients.map(extractEmail).filter(x => x !== null), as the set of the
\* values: the caller only asks whether some element matches
extractEmails(field) ==
    {extractEmail(r)[1] : r \in {q \in RecipientsOf(field) : extractEmail(q) # Null}}

extractNames(field) ==
    {extractName(r)[1] : r \in {q \in RecipientsOf(field) : extractName(q) # Null}}

(***************************************************************************)
(* MboxParser.isSelfEmail, for the configuration c of ./config.ts.          *)
(***************************************************************************)
\* a.toLowerCase().includes(b.toLowerCase())
IncludesNoCase(a, b) == Includes(ToLowerCase(a), ToLowerCase(b))

\* lines 411-414
IsIgnoredSender(c, from) ==
    LET fromName == extractName(from)
    IN  \E sender \in c.ignoredSenders :
            \/ IncludesNoCase(from, sender)
            \/ (fromName # Null /\ fromName[1] # "" /\ IncludesNoCase(fromName[1], sender))

\* lines 430-434
IsFromMe(c, from) ==
    LET fromEmail == extractEmail(from)
        fromName == extractName(from)
    IN  \/ \E addr \in c.myEmails : fromEmail # Null /\ IncludesNoCase(fromEmail[1], addr)
        \/ \E name \in c.myNames : fromName # Null /\ IncludesNoCase(fromName[1], name)

\* lines 437-441
IsToMe(c, to) ==
    \/ \E addr \in extractEmails(to) : \E myAddr \in c.myEmails : IncludesNoCase(addr, myAddr)
    \/ \E name \in extractNames(to) : \E myName \in c.myNames : IncludesNoCase(name, myName)

\* line 445 written with || instead of &&
FromMeOrToMe(isFromMe, isToMe) == isFromMe \/ isToMe

\* line 445
FromMeToMe(isFromMe, isToMe) == isFromMe /\ isToMe

isSelfEmail(c, email) ==
    IF IsIgnoredSender(c, email.from) THEN TRUE
    ELSE FromMeToMe(IsFromMe(c, email.from), IsToMe(c, email.to))

(***************************************************************************)
(* The split of the mbox file: csplit FILE '/^From /' '{*}' -f email_ -z    *)
(* (lines 292-300).  csplit cuts the file before every line that starts     *)
(* with "From ", writes the pieces email_00, email_01, ... in file order    *)
(* and, with -z, writes no empty piece.                                     *)
(***************************************************************************)
\* the offsets at which a line of the content starts
LineStarts(content) ==
    {0} \cup {k + 1 : k \in {n \in 0 .. Len(content) - 2 : CharAt(content, n) = "\n"}}

\* the pattern /From / without the anchor: every place where "From " stands
DelimiterAnywhere(content) ==
    {p \in 0 .. Len(content) - 1 : Substring(content, p, p + 5) = "From "}

\* the line starts matched by /^From /
DelimiterStarts(content) ==
    {p \in LineStarts(content) : Substring(content, p, p + 5) = "From "}

RECURSIVE SortedSeq(_)
SortedSeq(S) == IF S = {} THEN <<>> ELSE <<MinOf(S)>> \o SortedSeq(S \ {MinOf(S)})

\* csplit without -z: the empty piece before a leading "From " line, or of an
\* empty file, is written too
CsplitKeepEmpty(content) ==
    LET cuts == SortedSeq(DelimiterStarts(content) \cup {Len(content)})
        all == IF Len(cuts) > 0 /\ cuts[1] = 0 /\ Len(content) > 0
               THEN <<0>> \o cuts ELSE cuts
    IN  <<Substring(content, 0, all[1])>>
        \o [j \in 1 .. Len(all) - 1 |-> Substring(content, all[j], all[j + 1])]

Csplit(content) ==
    LET cuts == SortedSeq((DelimiterStarts(content) \ {0}) \cup {0, Len(content)})
    IN  IF content = "" THEN <<>>
        ELSE [j \in 1 .. Len(cuts) - 1 |-> Substring(content, cuts[j], cuts[j + 1])]

\* The orders in which Deno.readDir may list n files (lines 309-314): the
\* listing order of a directory is not specified.
Listings(n) == {f \in [1 .. n -> 1 .. n] : \A a, b \in 1 .. n : f[a] = f[b] => a = b}

(***************************************************************************)
(* The inputs of the model.                                                 *)
(***************************************************************************)
\* the identity configuration parseFile runs with: the shape of config.sample.ts
FileConfig ==
    [ignoredSenders |-> {"Cover"}, myEmails |-> {"m@x.io"}, myNames |-> {"Frank"}]

\* The pieces of text an archive is made of: messages that are kept, a message
\* from me to me, one from an ignored sender, messages without From or To,
\* text without any header and without final newline, a bare separator line,
\* text that no separator line introduces, and a message whose last header is
\* folded and that does not end with a newline.
ArchiveParts ==
    {"From x\nFrom: a@x.io\nTo: b@x.io\n\nzz\n",
     "From x\nFrom: m@x.io\nTo: m@x.io\n\nzz\n",
     "From x\nFrom: Cover\nTo: b@x.io\n",
     "From x\nFrom: a@x.io\n\nzz\n",
     "From x\nzz",
     "From x\n",
     "zz\n",
     "From x\nFrom: a@x.io\nTo: b@x.io\n\tc"}

RECURSIVE SeqsUpTo(_, _)
\* the sequences of at most n elements of the pool
SeqsUpTo(pool, n) ==
    IF n = 0 THEN {<<>>}
    ELSE LET shorter == SeqsUpTo(pool, n - 1)
         IN  shorter \cup {Append(q, l) : q \in {r \in shorter : Len(r) = n - 1}, l \in pool}

Archives == {Join(q, "") : q \in SeqsUpTo(ArchiveParts, MaxParts)}

\* the lines a block given to parseEmail is made of
BlockLines == {"From: a", "To: b", "To: d", "To:", "\tc", " e", "", "zz"}

\* the blocks: with and without the separator line csplit leaves at the top
Blocks ==
    LET texts == {Join(q, "\n") : q \in SeqsUpTo(BlockLines, MaxBlockLines)}
    IN  texts \cup {"From x\n" \o t : t \in texts}

\* the From fields isSelfEmail is given
FromFields ==
    {"A <a@x.com>", "a@x.com", "B <b@x.com>", "Frank", "FRANK <F@Y.ORG>",
     "Mail Delivery Subsystem <bounce@x.com>", "\"Cover\" Admin <n@y.org>"}

\* the entries a To field is made of
Recipients == {"A <a@x.com>", "a@x.com", "B <b@x.com>", "Frank", "c@z.net"}

ToFields == {Join(q, ", ") : q \in SeqsUpTo(Recipients, MaxRecipients) \ {<<>>}}

\* the identity configurations
Configs ==
    {[ignoredSenders |-> {"Mail Delivery Subsystem"}, myEmails |-> {"a@x.com"},
      myNames |-> {}],
     [ignoredSenders |-> {}, myEmails |-> {}, myNames |-> {"Frank"}],
     [ignoredSenders |-> {"Cover Admin", "frank"}, myEmails |-> {"A@X.COM"},
      myNames |-> {"frank"}],
     [ignoredSenders |-> {}, myEmails |-> {}, myNames |-> {}]}

NoParse == [ok |-> FALSE, reason |-> "none", content |-> "", headerSection |-> "",
            path |-> "none", atEnd |-> FALSE, subject |-> "", from |-> "", to |-> "",
            date |-> "", messageId |-> "", body |-> "", headers |-> EmptyHeaders]

NoLast == [blk |-> 0, parse |-> NoParse, self |-> FALSE]

NoEmail == [from |-> "", to |-> ""]

\* main, the consolidation script and the functions checked on their own have
\* not been started
\* MarkdownGenerator wrote nothing
GeneratorIdle ==
    /\ outputFiles = <<>>
    /\ indexContent = ""

\* the grouping script is not running
GroupingIdle ==
    /\ mdFiles = <<>>
    /\ chunkSize = 1
    /\ threshold = <<0, 1>>
    /\ chunkStart = 0
    /\ chunkGroups = <<>>
    /\ allGroups = <<>>

OutputsIdle == GeneratorIdle /\ GroupingIdle

ToolsIdle ==
    /\ OutputsIdle
    /\ strIn = ""
    /\ strOut = ""
    /\ dateComments = TRUE
    /\ sinceDateStr = ""
    /\ untilDateStr = ""
    /\ parsed = <<>>
    /\ saved = <<>>
    /\ sourceFiles = <<>>
    /\ emailsPerFile = 0
    /\ batchStart = 0
    /\ fileCounter = 0
    /\ processedEmails = 0
    /\ batches = <<>>

(***************************************************************************)
(* MboxParser.parseFile (lines 275-367).                                    *)
(***************************************************************************)
Init ==
    /\ cfg = FileConfig
    /\ archive \in Archives
    /\ pc = "start"
    /\ tempDir = "none"
    /\ csplitRuns \in BOOLEAN
    /\ pieces = <<>>
    /\ blockIn = ""
    /\ emailFiles = <<>>
    /\ i = 0
    /\ emails = <<>>
    /\ skippedSelfEmails = 0
    /\ last = NoLast
    /\ selfIn = NoEmail
    /\ selfOut = FALSE
    /\ ToolsIdle

\* the finally block left out: the directory stays
KeepTempDir(removed) == "exists"

\* lines 357-365, the finally block: Deno.remove(tempDir) is attempted; when it
\* fails the error is written to the console and swallowed, the directory is
\* left over
RemoveTempDir(removed) == IF removed THEN "removed" ELSE "leftover"

\* line 286: Deno.makeTempDir
MakeTempDir ==
    /\ pc = "start"
    /\ tempDir' = "exists"
    /\ pc' = "split"
    /\ UNCHANGED <<toolVars, cfg, archive, csplitRuns, pieces, blockIn, emailFiles, i, emails,
                   skippedSelfEmails, last, selfIn, selfOut>>

\* lines 292-302: the csplit command succeeds
SplitOk ==
    /\ pc = "split"
    /\ csplitRuns
    /\ pieces' = Csplit(archive)
    /\ pc' = "list"
    /\ UNCHANGED <<toolVars, cfg, archive, csplitRuns, tempDir, blockIn, emailFiles, i, emails,
                   skippedSelfEmails, last, selfIn, selfOut>>

\* lines 303-306, 354-366: the csplit command fails (it is not installed, the
\* file cannot be read, the disk is full); the error is thrown again after the
\* finally block removed the directory
SplitFail ==
    /\ pc = "split"
    /\ ~csplitRuns
    /\ \E removed \in BOOLEAN : tempDir' = RemoveTempDir(removed)
    /\ pc' = "failed"
    /\ UNCHANGED <<toolVars, cfg, archive, csplitRuns, pieces, blockIn, emailFiles, i, emails,
                   skippedSelfEmails, last, selfIn, selfOut>>

\* lines 309-320: the listing of the directory, in the order readDir gives
ListDir ==
    /\ pc = "list"
    /\ \E order \in Listings(Len(pieces)) :
           emailFiles' = [k \in 1 .. Len(pieces) |->
                             [blk |-> order[k], content |-> pieces[order[k]]]]
    /\ i' = 0
    /\ emails' = <<>>
    /\ skippedSelfEmails' = 0
    /\ pc' = "loop"
    /\ UNCHANGED <<toolVars, cfg, archive, csplitRuns, tempDir, pieces, blockIn, last, selfIn,
                   selfOut>>

\* the record parseEmail returns (lines 586-594)
EmailOf(r) ==
    [subject |-> r.subject, from |-> r.from, to |-> r.to, date |-> r.date,
     messageId |-> r.messageId, body |-> r.body, headers |-> r.headers]

\* an iteration that counts a self email and keeps it as well
CountAndKeep ==
    /\ pc = "loop"
    /\ i < Len(emailFiles)
    /\ LET file == emailFiles[i + 1]
           r == parseEmail(file.content)
           self == r.ok /\ isSelfEmail(cfg, EmailOf(r))
       IN  /\ last' = [blk |-> file.blk, parse |-> r, self |-> self]
           /\ skippedSelfEmails' = IF self THEN skippedSelfEmails + 1
                                   ELSE skippedSelfEmails
           /\ emails' = IF r.ok
                        THEN Append(emails, [blk |-> file.blk, email |-> EmailOf(r)])
                        ELSE emails
    /\ i' = i + 1
    /\ UNCHANGED <<toolVars, cfg, archive, csplitRuns, pc, tempDir, pieces, blockIn, emailFiles,
                   selfIn, selfOut>>

\* lines 322-346: one iteration of the loop over the email files
ProcessEmail ==
    /\ pc = "loop"
    /\ i < Len(emailFiles)
    /\ LET file == emailFiles[i + 1]
           r == parseEmail(file.content)
           self == r.ok /\ isSelfEmail(cfg, EmailOf(r))
       IN  /\ last' = [blk |-> file.blk, parse |-> r, self |-> self]
           /\ skippedSelfEmails' = IF self THEN skippedSelfEmails + 1
                                   ELSE skippedSelfEmails
           /\ emails' = IF r.ok /\ ~self
                        THEN Append(emails, [blk |-> file.blk, email |-> EmailOf(r)])
                        ELSE emails
    /\ i' = i + 1
    /\ UNCHANGED <<toolVars, cfg, archive, csplitRuns, pc, tempDir, pieces, blockIn, emailFiles,
                   selfIn, selfOut>>

\* the run given up at the first block for which parseEmail gave no record
ReturnAtFailure ==
    /\ pc = "loop"
    /\ i = Len(emailFiles) \/ (i > 0 /\ ~last.parse.ok)
    /\ \E removed \in BOOLEAN : tempDir' = RemoveTempDir(removed)
    /\ pc' = "done"
    /\ UNCHANGED <<toolVars, cfg, archive, csplitRuns, pieces, blockIn, emailFiles, i, emails,
                   skippedSelfEmails, last, selfIn, selfOut>>

\* lines 326, 345, 354-366: Deno.readTextFile or Deno.remove of a split file
\* throws; the error is written to the console and thrown again after the
\* finally block
ReadFail ==
    /\ pc = "loop"
    /\ i < Len(emailFiles)
    /\ \E removed \in BOOLEAN : tempDir' = RemoveTempDir(removed)
    /\ pc' = "failed"
    /\ UNCHANGED <<toolVars, cfg, archive, csplitRuns, pieces, blockIn, emailFiles, i, emails,
                   skippedSelfEmails, last, selfIn, selfOut>>

\* lines 348-352, 357-366: the loop is over; the directory is removed and the
\* records are returned
Return ==
    /\ pc = "loop"
    /\ i = Len(emailFiles)
    /\ \E removed \in BOOLEAN : tempDir' = RemoveTempDir(removed)
    /\ pc' = "done"
    /\ UNCHANGED <<toolVars, cfg, archive, csplitRuns, pieces, blockIn, emailFiles, i, emails,
                   skippedSelfEmails, last, selfIn, selfOut>>

Next ==
    \/ MakeTempDir
    \/ SplitOk
    \/ SplitFail
    \/ ListDir
    \/ ProcessEmail
    \/ ReadFail
    \/ Return

Spec == Init /\ [][Next]_vars

(***************************************************************************)
(* parseEmail on its own: a block is given, parseEmail is applied to it.    *)
(***************************************************************************)
InitEmail ==
    /\ cfg = FileConfig
    /\ archive = ""
    /\ pc = "block"
    /\ tempDir = "none"
    /\ csplitRuns = TRUE
    /\ pieces = <<>>
    /\ blockIn \in Blocks
    /\ emailFiles = <<>>
    /\ i = 0
    /\ emails = <<>>
    /\ skippedSelfEmails = 0
    /\ last = NoLast
    /\ selfIn = NoEmail
    /\ selfOut = FALSE
    /\ ToolsIdle

ParseBlock ==
    /\ pc = "block"
    /\ last' = [blk |-> 0, parse |-> parseEmail(blockIn), self |-> FALSE]
    /\ pc' = "blockdone"
    /\ UNCHANGED <<toolVars, cfg, archive, csplitRuns, tempDir, pieces, blockIn, emailFiles, i, emails,
                   skippedSelfEmails, selfIn, selfOut>>

NextEmail == ParseBlock

SpecEmail == InitEmail /\ [][NextEmail]_vars

(***************************************************************************)
(* isSelfEmail on its own: a message and a configuration are given,         *)
(* isSelfEmail is applied to them.                                          *)
(***************************************************************************)
InitSelf ==
    /\ cfg \in Configs
    /\ archive = ""
    /\ pc = "self"
    /\ tempDir = "none"
    /\ csplitRuns = TRUE
    /\ pieces = <<>>
    /\ blockIn = ""
    /\ emailFiles = <<>>
    /\ i = 0
    /\ emails = <<>>
    /\ skippedSelfEmails = 0
    /\ last = NoLast
    /\ selfIn \in [from : FromFields, to : ToFields]
    /\ selfOut = FALSE
    /\ ToolsIdle

Classify ==
    /\ pc = "self"
    /\ selfOut' = isSelfEmail(cfg, selfIn)
    /\ pc' = "selfdone"
    /\ UNCHANGED <<toolVars, cfg, archive, csplitRuns, tempDir, pieces, blockIn, emailFiles, i, emails,
                   skippedSelfEmails, last, selfIn>>

NextSelf == Classify

SpecSelf == InitSelf /\ [][NextSelf]_vars

(***************************************************************************)
(* C1.  The classification rule.                                            *)
(***************************************************************************)
\* frag occurs in text, whatever the case of the letters
C1_Matches(text, frag) ==
    LET t == ToLowerCase(text)
        f == ToLowerCase(frag)
    IN  \E a \in 1 .. Len(t) - Len(f) + 1 : SubSeq(t, a, a + Len(f) - 1) = f

C1_Entries(to) == {Trim(Split(to, ",")[k]) : k \in 1 .. Len(Split(to, ","))}

C1_Ignored ==
    \E frag \in cfg.ignoredSenders :
        \/ C1_Matches(selfIn.from, frag)
        \/ \E n \in {extractName(selfIn.from)} : n # Null /\ C1_Matches(n[1], frag)

C1_FromIsMe ==
    \/ \E e \in {extractEmail(selfIn.from)} :
           e # Null /\ \E mine \in cfg.myEmails : C1_Matches(e[1], mine)
    \/ \E n \in {extractName(selfIn.from)} :
           n # Null /\ \E mine \in cfg.myNames : C1_Matches(n[1], mine)

C1_ToIncludesMe ==
    \E entry \in C1_Entries(selfIn.to) :
        \/ \E e \in {extractEmail(entry)} :
               e # Null /\ \E mine \in cfg.myEmails : C1_Matches(e[1], mine)
        \/ \E n \in {extractName(entry)} :
               n # Null /\ \E mine \in cfg.myNames : C1_Matches(n[1], mine)

\* C1: isSelfEmail returns true exactly when the sender matches an ignoredSenders
\* fragment (in the raw From field or in its display name) or the sender is me
\* and some recipient is me; so an ignored sender is excluded whatever the To
\* field is, and a message from me to nobody that is me is not excluded by the
\* self rule.
C1_SelfRule ==
    pc = "selfdone" =>
        /\ selfOut = (C1_Ignored \/ (C1_FromIsMe /\ C1_ToIncludesMe))
        /\ C1_Ignored => selfOut
        /\ (C1_FromIsMe /\ ~C1_ToIncludesMe /\ ~C1_Ignored) => ~selfOut

\* a message from me to somebody else was classified, and kept
C1_Witness ==
    /\ pc = "selfdone"
    /\ C1_FromIsMe /\ ~C1_ToIncludesMe /\ ~C1_Ignored
    /\ ~selfOut

(***************************************************************************)
(* C2.  The required fields.                                                *)
(***************************************************************************)
\* the value parseEmail finds for a header under its two spellings
C2_Extracted(headers, name, lower) ==
    IF name \in DOMAIN headers /\ headers[name] # "" THEN headers[name]
    ELSE IF lower \in DOMAIN headers THEN headers[lower]
    ELSE ""

\* some line of the block starts with the prefix
C2_HasLine(block, prefixes) ==
    \E k \in 1 .. Len(Split(block, "\n")) :
        \E q \in prefixes : StartsWith(Split(block, "\n")[k], q)

\* C2: parseEmail returns a record only when a non-empty From value and a
\* non-empty To value were extracted from the block, the record carries those
\* values and never a placeholder; when either value is missing or empty it
\* returns null.
C2_RequiredFields ==
    pc = "blockdone" =>
        LET p == last.parse
            from == C2_Extracted(p.headers, "From", "from")
            to == C2_Extracted(p.headers, "To", "to")
        IN  /\ p.ok => /\ from # "" /\ to # ""
                       /\ p.from = from /\ p.to = to
                       /\ p.from # "(No Sender)" /\ p.to # "(No Recipient)"
                       /\ C2_HasLine(blockIn, {"From:", "from:"})
                       /\ C2_HasLine(blockIn, {"To:", "to:"})
            /\ (from = "" \/ to = "") => ~p.ok

\* a block with both fields gave a record
C2_Witness ==
    /\ pc = "blockdone"
    /\ last.parse.ok
    /\ last.parse.from = "a"
    /\ last.parse.to # ""

(***************************************************************************)
(* C3.  The order of the records parseFile returns.                         *)
(***************************************************************************)
\* C3: the records parseFile returns are in archive order: a record of an
\* earlier block stands before a record of a later block, whatever the order
\* of the directory listing.
C3_ArchiveOrder ==
    pc = "done" =>
        \A a, b \in 1 .. Len(emails) : a < b => emails[a].blk < emails[b].blk

(***************************************************************************)
(* C4, C5.  The split into blocks.                                          *)
(***************************************************************************)
\* the split is over
C4_SplitDone == pc \in {"list", "loop", "done"}

\* the lines of the text that start with "From "
C4_DelimiterLines(text) ==
    LET segs == Split(text, "\n")
    IN  {k \in 1 .. Len(segs) : StartsWith(segs[k], "From ")}

\* the archive is a sequence of messages, each introduced by a "From " line
C4_WellFormed(text) == text # "" /\ 1 \in C4_DelimiterLines(text)

\* C4: an archive of N messages, each introduced by a line starting with
\* "From ", is split into exactly N blocks, each block starts with its
\* delimiter line, and the blocks concatenated in order are the archive.
C4_SplitIsExact ==
    (C4_SplitDone /\ C4_WellFormed(archive)) =>
        /\ Len(pieces) = Cardinality(C4_DelimiterLines(archive))
        /\ \A k \in 1 .. Len(pieces) : StartsWith(pieces[k], "From ")
        /\ Join(pieces, "") = archive

\* an archive of two messages was split
C4_Witness ==
    /\ C4_SplitDone
    /\ C4_WellFormed(archive)
    /\ Cardinality(C4_DelimiterLines(archive)) = 2
    /\ Len(pieces) = 2

\* C5: an archive without any line starting with "From " is split into exactly
\* one block, the whole content, and into no block when it is empty; the
\* split does not fail on it.
C5_NoDelimiter ==
    /\ []((csplitRuns /\ pc # "start" /\ pc # "split" /\ C4_DelimiterLines(archive) = {}) =>
              pieces = IF archive = "" THEN <<>> ELSE <<archive>>)
    /\ [][(pc = "split" /\ csplitRuns /\ C4_DelimiterLines(archive) = {}) =>
              pc' = "list"]_vars

\* a text without delimiter line was split into one block
C5_Witness ==
    /\ C4_SplitDone
    /\ C4_DelimiterLines(archive) = {}
    /\ archive # ""
    /\ pieces = <<archive>>

(***************************************************************************)
(* C8.  Blocks without any header.                                          *)
(***************************************************************************)
\* no line of the content holds a colon, and no line but a last, unterminated
\* one is empty
C8_NoColonNoBlank(content) ==
    LET segs == Split(content, "\n")
    IN  /\ ~Includes(content, ":")
        /\ \A k \in 1 .. Len(segs) - 1 : segs[k] # ""

\* parseFile has just handled a block without colon and without blank line
C8_Handled ==
    /\ pc \in {"loop", "done"}
    /\ last.blk # 0
    /\ C8_NoColonNoBlank(last.parse.content)

C6_Stripped(block) ==
    LET segs == Split(block, "\n")
    IN  IF StartsWith(segs[1], "From ") THEN Join(Tail(segs), "\n") ELSE block

\* the empty lines that follow a line break and end with one: the blank-line
\* boundaries ("\n\n") of the content
C6_Boundaries(content) ==
    LET segs == Split(content, "\n")
    IN  {k \in 2 .. Len(segs) - 1 : segs[k] = ""}

\* C6: when the block, its leading "From " line stripped, holds a blank line,
\* the header section is the text before the first blank line and the body is
\* the decoded text after it; the fallback scan runs only when there is no
\* blank-line boundary.
C6_BlankLineBoundary ==
    pc = "blockdone" =>
        LET p == last.parse
            content == C6_Stripped(blockIn)
            segs == Split(content, "\n")
            cuts == C6_Boundaries(content)
        IN  /\ p.content = content
            /\ cuts # {} =>
                  /\ p.path = "blankline"
                  /\ p.headerSection = Join(SubSeq(segs, 1, MinOf(cuts) - 1), "\n")
                  /\ p.body = cleanBody(Join(SubSeq(segs, MinOf(cuts) + 1, Len(segs)), "\n"))
            /\ p.path # "blankline" => cuts = {}

\* a block with header lines, a blank line and a body was cut at the blank line
C6_Witness ==
    /\ pc = "blockdone"
    /\ last.parse.path = "blankline"
    /\ last.parse.headerSection = "From: a\nTo: b"
    /\ last.parse.body = "zz"

\* C7: in the fallback path, when the scan reaches the end of the content and
\* a header-like line was seen, every line is parsed as header, the folded
\* lines after the last header line too, and the body is empty.
C7_AllHeader ==
    (pc = "blockdone" /\ last.parse.path = "scan" /\ last.parse.atEnd) =>
        /\ last.parse.headerSection = last.parse.content
        /\ last.parse.body = ""

(***************************************************************************)
(* C9, C10.  The header map.                                                *)
(***************************************************************************)
\* line k of the lines starts a header: it is no continuation line and has a
\* colon after a name
C9_Starts(lines, k) ==
    /\ ~StartsWith(lines[k], " ") /\ ~StartsWith(lines[k], "\t")
    /\ \E c \in 2 .. Len(lines[k]) :
           /\ SubSeq(lines[k], c, c) = ":"
           /\ ~Includes(SubSeq(lines[k], 1, c - 1), ":")
           /\ Trim(SubSeq(lines[k], 1, c - 1)) # ""

\* the name and the first fragment of the header that line k starts
C9_Name(lines, k) == Trim(SubSeq(lines[k], 1, IndexOf(lines[k], ":")))
C9_First(lines, k) == Trim(SubSeq(lines[k], IndexOf(lines[k], ":") + 2, Len(lines[k])))

\* the lines after k up to the next line that starts a header
C9_Reach(lines, k) ==
    {m \in k + 1 .. Len(lines) : \A n \in k + 1 .. m : ~C9_Starts(lines, n)}

RECURSIVE C9_Folded(_, _, _)
\* the first fragment followed by the fragments of the continuation lines
\* among the lines from m on that belong to the header, each after one space
C9_Folded(lines, reach, m) ==
    IF m \notin reach THEN ""
    ELSE (IF StartsWith(lines[m], " ") \/ StartsWith(lines[m], "\t")
          THEN " " \o Trim(lines[m]) ELSE "")
         \o C9_Folded(lines, reach, m + 1)

\* the value of the header that line k starts
C9_Value(lines, k) ==
    Trim(C9_First(lines, k) \o C9_Folded(lines, C9_Reach(lines, k), k + 1))

\* line k is the last line that starts a header of its name
C9_IsLast(lines, k) ==
    /\ C9_Starts(lines, k)
    /\ \A n \in k + 1 .. Len(lines) :
           C9_Starts(lines, n) => C9_Name(lines, n) # C9_Name(lines, k)

\* C9: every line that begins with a space or a tab is appended to the value
\* of the header being built, after exactly one space: the map holds the first
\* fragment and the fragments of the continuation lines joined by one space.
C9_Folding ==
    (pc = "blockdone" /\ last.parse.headerSection # "") =>
        LET lines == Split(last.parse.headerSection, "\n")
        IN  \A k \in 1 .. Len(lines) :
                (C9_IsLast(lines, k) /\ C9_Reach(lines, k) # {}) =>
                    /\ C9_Name(lines, k) \in DOMAIN last.parse.headers
                    /\ last.parse.headers[C9_Name(lines, k)] = C9_Value(lines, k)

\* a header value followed by a tab-indented line is in the map as the two
\* fragments joined by one space
C9_Witness ==
    /\ pc = "blockdone"
    /\ last.parse.ok
    /\ Includes(last.parse.headerSection, "To: b\n\tc")
    /\ last.parse.headers["To"] = "b c"

\* C10: a header name that occurs several times has the value of its last
\* occurrence, and every key of the map is the name of a line that is no
\* continuation line and holds a colon.
C10_LastWins ==
    (pc = "blockdone" /\ last.parse.headerSection # "") =>
        LET lines == Split(last.parse.headerSection, "\n")
            starts == {k \in 1 .. Len(lines) : C9_Starts(lines, k)}
        IN  /\ DOMAIN last.parse.headers = {C9_Name(lines, k) : k \in starts}
            /\ \A k \in starts :
                   LET same == {n \in starts : C9_Name(lines, n) = C9_Name(lines, k)}
                   IN  last.parse.headers[C9_Name(lines, k)]
                           = C9_Value(lines, MaxOf(same))

\* To occurs twice with different values and the map holds the second
C10_Witness ==
    /\ pc = "blockdone"
    /\ Includes(last.parse.headerSection, "To: b")
    /\ Includes(last.parse.headerSection, "\nTo: d")
    /\ last.parse.headers["To"] = "d"

(***************************************************************************)
(* parseEmail on blocks of named header lines: the header names in several  *)
(* capitalisations, the values plain or holding encoded words.              *)
(***************************************************************************)
FromNames == {"From", "from", "FROM", "fRoM"}
ToNames == {"To", "to", "TO", "tO"}
ToValues == {"b", "=?UTF-8?B?SGVsbG8=?=", "=?x?B?!?= c"}
OtherLines ==
    {"", "\nSubject: s", "\nSUBJECT: s", "\nDate: d", "\ndate: d", "\nDATE: d",
     "\nMessage-ID: m", "\nMessage-Id: m", "\nmessage-id: m", "\nMESSAGE-ID: m"}

FieldBlocks ==
    {f \o ": a\n" \o t \o ": " \o v \o o :
        f \in FromNames, t \in ToNames, v \in ToValues, o \in OtherLines}

InitFields ==
    /\ cfg = FileConfig
    /\ archive = ""
    /\ pc = "block"
    /\ tempDir = "none"
    /\ csplitRuns = TRUE
    /\ pieces = <<>>
    /\ blockIn \in FieldBlocks
    /\ emailFiles = <<>>
    /\ i = 0
    /\ emails = <<>>
    /\ skippedSelfEmails = 0
    /\ last = NoLast
    /\ selfIn = NoEmail
    /\ selfOut = FALSE
    /\ ToolsIdle

SpecFields == InitFields /\ [][NextEmail]_vars

(***************************************************************************)
(* C11.  The lookup of the header names.                                    *)
(***************************************************************************)
\* the values the map holds under the names that are name in lower case
C11_Values(name) ==
    {last.parse.headers[k] :
        k \in {h \in DOMAIN last.parse.headers : ToLowerCase(h) = name}}

\* a field is the value of the header of that name, whatever its capitals
C11_Found(name, field) ==
    \A v \in C11_Values(name) : (C11_Values(name) = {v} /\ v # "") => field = v

\* C11: Subject, From, To, Date and Message-ID are looked up whatever the
\* capitalisation of the name in the block: the field of the record takes the
\* value of that header and not the placeholder.
C11_CaseInsensitive ==
    pc = "blockdone" =>
        /\ C11_Found("subject", last.parse.subject)
        /\ C11_Found("from", last.parse.from)
        /\ C11_Found("to", last.parse.to)
        /\ C11_Found("date", last.parse.date)
        /\ C11_Found("message-id", last.parse.messageId)

(***************************************************************************)
(* decodeHeader, cleanBody and parseDate on their own: a string is given,   *)
(* the function is applied to it.                                           *)
(***************************************************************************)
MaxWords == 3       \* pieces of text of a header value or of a body

\* MboxParser is not running
ParserIdle ==
    /\ cfg = FileConfig
    /\ archive = ""
    /\ tempDir = "none"
    /\ csplitRuns = TRUE
    /\ pieces = <<>>
    /\ blockIn = ""
    /\ emailFiles = <<>>
    /\ i = 0
    /\ emails = <<>>
    /\ skippedSelfEmails = 0
    /\ last = NoLast
    /\ selfIn = NoEmail
    /\ selfOut = FALSE

\* main and the consolidation script are not running
ScriptsIdle ==
    /\ sinceDateStr = ""
    /\ untilDateStr = ""
    /\ parsed = <<>>
    /\ saved = <<>>
    /\ sourceFiles = <<>>
    /\ emailsPerFile = 0
    /\ batchStart = 0
    /\ fileCounter = 0
    /\ processedEmails = 0
    /\ batches = <<>>

scriptVars == <<sinceDateStr, untilDateStr, parsed, saved, sourceFiles, emailsPerFile,
                batchStart, fileCounter, processedEmails, batches>>

\* The pieces a header value is made of: Base64 words (Hello, a), words marked
\* Q, words whose payload atob rejects, and plain text.
ValueParts ==
    {"=?UTF-8?B?SGVsbG8=?=", "=?x?b?YQ==?=", "=?x?Q?a=20b?=", "=?x?Q?abcd?=",
     "=?x?B?!?=", "=?x?q?Hello?=", "a", " "}

HeaderValues == {Join(q, "") : q \in SeqsUpTo(ValueParts, MaxWords)}

InitDecode ==
    /\ ParserIdle
    /\ ScriptsIdle
    /\ OutputsIdle
    /\ pc = "value"
    /\ strIn \in HeaderValues
    /\ strOut = ""
    /\ dateComments = TRUE

DecodeValue ==
    /\ pc = "value"
    /\ strOut' = decodeHeader(strIn)
    /\ pc' = "valuedone"
    /\ UNCHANGED <<parserVars, scriptVars, strIn, dateComments>>

NextDecode == DecodeValue

SpecDecode == InitDecode /\ [][NextDecode]_vars

(***************************************************************************)
(* C12, C13.  decodeHeader.                                                 *)
(***************************************************************************)
RECURSIVE C12_QText(_)
\* the text a Q payload stands for: "=XY" is the character of code XY, "_" a
\* space, any other character itself
C12_QText(s) ==
    IF s = "" THEN ""
    ELSE IF /\ SubSeq(s, 1, 1) = "="
            /\ Len(s) >= 3
            /\ Includes(HexDigits, SubSeq(s, 2, 2))
            /\ Includes(HexDigits, SubSeq(s, 3, 3))
         THEN FromCharCode(ParseHex2(SubSeq(s, 2, 3))) \o C12_QText(SubSeq(s, 4, Len(s)))
         ELSE (IF SubSeq(s, 1, 1) = "_" THEN " " ELSE SubSeq(s, 1, 1))
              \o C12_QText(SubSeq(s, 2, Len(s)))

\* the letter B or Q of the encoded word w found in s
C12_Encoding(s, w) == CharAt(s, w.end - Len(w.payload) - 4)

\* the text an encoded word stands for according to its declared encoding; a
\* Base64 payload that is no Base64 stands for itself
C12_WordText(s, p, w) ==
    IF C12_Encoding(s, w) \in {"Q", "q"} THEN C12_QText(w.payload)
    ELSE IF Atob(w.payload).ok THEN Atob(w.payload).text
    ELSE Substring(s, p, w.end)

RECURSIVE C12_Text(_, _)
\* s from index p on with every encoded word replaced by its text
C12_Text(s, p) ==
    IF p >= Len(s) THEN ""
    ELSE LET w == EncodedWordAt(s, p)
         IN  IF w.hit THEN C12_WordText(s, p, w) \o C12_Text(s, w.end)
             ELSE CharAt(s, p) \o C12_Text(s, p + 1)

\* C12: decodeHeader replaces every encoded word =?charset?B?payload?= or
\* =?charset?Q?payload?= of a header value by its decoded text according to
\* the declared encoding, Base64 for B and quoted-printable for Q.
C12_DeclaredEncoding ==
    pc = "valuedone" => strOut = Trim(C12_Text(strIn, 0))

RECURSIVE C13_Text(_, _)
\* s from index p on with every encoded word that atob can decode replaced by
\* what atob gives, and every other encoded word as it was
C13_Text(s, p) ==
    IF p >= Len(s) THEN ""
    ELSE LET w == EncodedWordAt(s, p)
         IN  IF w.hit
             THEN (IF Atob(w.payload).ok THEN Atob(w.payload).text
                   ELSE SubSeq(s, p + 1, w.end))
                  \o C13_Text(s, w.end)
             ELSE SubSeq(s, p + 1, p + 1) \o C13_Text(s, p + 1)

\* C13: an encoded word that cannot be decoded stays exactly as it was, no
\* exception is raised (a result is returned), and the other encoded words of
\* the value are decoded all the same.
C13_DecodeFallback ==
    pc = "valuedone" => strOut = Trim(C13_Text(strIn, 0))

\* a value with a word atob rejects between two words it decodes
C13_Witness ==
    /\ pc = "valuedone"
    /\ strIn = "=?UTF-8?B?SGVsbG8=?==?x?B?!?==?x?b?YQ==?="
    /\ strOut = "Hello=?x?B?!?=a"

(***************************************************************************)
(* cleanBody on its own.                                                    *)
(***************************************************************************)
\* The pieces a body is made of: soft line breaks, escapes, "=" sequences that
\* are no escape, and plain text.
BodyParts == {"=\n", "=\r\n", "=41", "=3D", "=4a", "=G1", "=", "a", " ", "\n"}

Bodies == {Join(q, "") : q \in SeqsUpTo(BodyParts, MaxWords)}

InitBody ==
    /\ ParserIdle
    /\ ScriptsIdle
    /\ OutputsIdle
    /\ pc = "body"
    /\ strIn \in Bodies
    /\ strOut = ""
    /\ dateComments = TRUE

CleanBody ==
    /\ pc = "body"
    /\ strOut' = cleanBody(strIn)
    /\ pc' = "bodydone"
    /\ UNCHANGED <<parserVars, scriptVars, strIn, dateComments>>

NextBody == CleanBody

SpecBody == InitBody /\ [][NextBody]_vars

(***************************************************************************)
(* C14.  cleanBody.                                                         *)
(***************************************************************************)
\* t stands in s at position p (from 1)
C14_At(s, p, t) == p >= 1 /\ p + Len(t) - 1 <= Len(s) /\ SubSeq(s, p, p + Len(t) - 1) = t

\* the positions of s taken by soft line breaks: "=" and the newline, with or
\* without a carriage return, that follows it
C14_SoftBreaks(s) ==
    {p \in 1 .. Len(s) :
        \/ C14_At(s, p, "=\n")
        \/ C14_At(s, p - 1, "=\n")
        \/ C14_At(s, p, "=\r\n")
        \/ C14_At(s, p - 1, "=\r\n")
        \/ C14_At(s, p - 2, "=\r\n")}

RECURSIVE C14_Keep(_, _, _)
\* the characters of s from position p on that are at none of the positions
C14_Keep(s, drop, p) ==
    IF p > Len(s) THEN ""
    ELSE (IF p \in drop THEN "" ELSE SubSeq(s, p, p)) \o C14_Keep(s, drop, p + 1)

\* the positions of s where an escape starts: "=" and two upper-case hex digits
C14_Escapes(s) ==
    {p \in 1 .. Len(s) - 2 :
        /\ SubSeq(s, p, p) = "="
        /\ \E x, y \in 0 .. 15 :
               SubSeq(s, p + 1, p + 2) = SubSeq(HexDigits, x + 1, x + 1)
                                             \o SubSeq(HexDigits, y + 1, y + 1)}

\* the code an escape at position p stands for
C14_Code(s, p) ==
    CHOOSE n \in 0 .. 255 :
        SubSeq(s, p + 1, p + 2) = SubSeq(HexDigits, (n \div 16) + 1, (n \div 16) + 1)
                                      \o SubSeq(HexDigits, (n % 16) + 1, (n % 16) + 1)

RECURSIVE C14_Unescape(_, _, _)
\* s from position p on, every escape replaced by the character of its code
C14_Unescape(s, esc, p) ==
    IF p > Len(s) THEN ""
    ELSE IF p \in esc
         THEN FromCharCode(C14_Code(s, p)) \o C14_Unescape(s, esc, p + 3)
         ELSE SubSeq(s, p, p) \o C14_Unescape(s, esc, p + 1)

\* C14: cleanBody removes every soft line break ("=" immediately followed by a
\* newline), then replaces every "=XY" with X and Y upper-case hex digits by
\* the character of that code, then trims; every other "=" sequence stays as
\* literal text and a result is returned for every body.
C14_QuotedPrintable ==
    pc = "bodydone" =>
        LET joined == C14_Keep(strIn, C14_SoftBreaks(strIn), 1)
        IN  strOut = Trim(C14_Unescape(joined, C14_Escapes(joined), 1))

\* a body with a soft line break, an escape and a lower-case "=4a"
C14_Witness ==
    /\ pc = "bodydone"
    /\ strIn = "=\n=41=4a"
    /\ strOut = "A=4a"

(***************************************************************************)
(* Date and MarkdownGenerator.parseDate (lines 697-724).  A time value is   *)
(* a number of days; <<>> stands for an invalid Date (NaN) and for null.    *)
(***************************************************************************)
RECURSIVE ParseDigits(_)
\* the number a string of digits stands for, -1 when it is no such string
ParseDigits(s) ==
    IF s = "" THEN -1
    ELSE LET d == IndexOf(Digits, SubSeq(s, Len(s), Len(s)))
         IN  IF d = -1 THEN -1
             ELSE IF Len(s) = 1 THEN d
             ELSE LET rest == ParseDigits(SubSeq(s, 1, Len(s) - 1))
                  IN  IF rest = -1 THEN -1 ELSE rest * 10 + d

\* The date-only form YYYY-MM-DD of the Date Time String Format; the days are
\* counted with months of 31 days, which keeps the order of the dates.
IsoDate(s) ==
    LET y == ParseDigits(Substring(s, 0, 4))
        mo == ParseDigits(Substring(s, 5, 7))
        d == ParseDigits(Substring(s, 8, 10))
    IN  IF /\ Len(s) = 10
           /\ CharAt(s, 4) = "-" /\ CharAt(s, 7) = "-"
           /\ y # -1 /\ mo >= 1 /\ mo <= 12 /\ d >= 1 /\ d <= 31
        THEN Some((y * 12 + (mo - 1)) * 31 + (d - 1))
        ELSE Null

RECURSIVE SkipComments(_, _)
\* What a date parser that reads over comments keeps of s: the text outside
\* the parentheses, which may be nested; depth counts the open ones.
SkipComments(s, depth) ==
    IF s = "" THEN ""
    ELSE LET c == CharAt(s, 0)
             rest == SubstringFrom(s, 1)
         IN  IF c = "(" THEN SkipComments(rest, depth + 1)
             ELSE IF c = ")" /\ depth > 0 THEN SkipComments(rest, depth - 1)
             ELSE IF depth > 0 THEN SkipComments(rest, depth)
             ELSE c \o SkipComments(rest, depth)

\* new Date(s).getTime(): the standard format is parsed by every runtime; what
\* else is parsed is up to the runtime, here whether comments are read over
DateParse(s, comments) ==
    IF IsoDate(s) # Null THEN IsoDate(s)
    ELSE IF comments /\ Includes(s, "(") THEN IsoDate(Trim(SkipComments(s, 0)))
    ELSE Null

\* line 712 left out: the string is parsed again as it is
KeepComments(s) == s

RECURSIVE StripComments(_)
\* .replace(/\(.*?\)/g, ''): from each "(" to the next ")" on the same line
StripComments(s) ==
    IF s = "" THEN ""
    ELSE LET close == IndexFrom(s, ")", 1)
         IN  IF /\ CharAt(s, 0) = "("
                /\ close # -1
                /\ ~Includes(Substring(s, 0, close), "\n")
             THEN StripComments(SubstringFrom(s, close + 1))
             ELSE CharAt(s, 0) \o StripComments(SubstringFrom(s, 1))

\* lines 711-720: the second attempt
ParseCleaned(dateStr, comments) == DateParse(Trim(StripComments(dateStr)), comments)

\* MarkdownGenerator.parseDate
parseDate(dateStr, comments) ==
    IF dateStr = "" THEN Null
    ELSE IF DateParse(dateStr, comments) # Null THEN DateParse(dateStr, comments)
    ELSE ParseCleaned(dateStr, comments)

\* the Date header values: dates, a date with a month 13, text that is no
\* date, nothing; before and after them comments, nested or not closed
DateCores == {"2023-01-01", "2023-01-02", "2023-02-01", "2024-01-01", "2023-13-01",
              "soon", ""}
DateSuffixes == {"", " (UTC)", " (a) (b)", " ((x))", " (y"}
DatePrefixes == {"", "(c) "}

DateStrings == {a \o c \o z : a \in DatePrefixes, c \in DateCores, z \in DateSuffixes}

InitDate ==
    /\ ParserIdle
    /\ ScriptsIdle
    /\ OutputsIdle
    /\ pc = "date"
    /\ strIn \in DateStrings
    /\ strOut = ""
    /\ dateComments \in BOOLEAN

ParseDate ==
    /\ pc = "date"
    /\ strOut' = parseDate(strIn, dateComments)
    /\ pc' = "datedone"
    /\ UNCHANGED <<parserVars, scriptVars, strIn, dateComments>>

NextDate == ParseDate

SpecDate == InitDate /\ [][NextDate]_vars

(***************************************************************************)
(* C15.  parseDate.                                                         *)
(***************************************************************************)
RECURSIVE C15_Outside(_, _)
\* s from position p on without its comments: each "(" with the text up to the
\* next ")" is left out
C15_Outside(s, p) ==
    IF p > Len(s) THEN ""
    ELSE LET ends == {q \in p + 1 .. Len(s) : SubSeq(s, q, q) = ")"}
         IN  IF SubSeq(s, p, p) = "(" /\ ends # {}
             THEN C15_Outside(s, MinOf(ends) + 1)
             ELSE SubSeq(s, p, p) \o C15_Outside(s, p + 1)

\* C15: parseDate returns for every string a valid time value or null: the
\* direct parse when it succeeds, otherwise the parse of the string without
\* its parenthesized comments when that succeeds, otherwise null.
C15_DateFallback ==
    pc = "datedone" =>
        LET direct == DateParse(strIn, dateComments)
            second == DateParse(Trim(C15_Outside(strIn, 1)), dateComments)
        IN  /\ strOut = Null \/ (Len(strOut) = 1 /\ strOut[1] \in Nat)
            /\ direct # Null => strOut = direct
            /\ (direct = Null /\ second # Null) => strOut = second
            /\ (direct = Null /\ second = Null) => strOut = Null

\* a date followed by "(UTC)" that the runtime does not parse as it is
C15_Witness ==
    /\ pc = "datedone"
    /\ ~dateComments
    /\ strIn = "2023-01-02 (UTC)"
    /\ DateParse(strIn, dateComments) = Null
    /\ strOut = IsoDate("2023-01-02")

(***************************************************************************)
(* C16.  The run counters.                                                  *)
(***************************************************************************)
\* What the caller of parseFile gets when the run is over (line 352, read at
\* line 820): the array of the records and nothing else; the numbers of lines
\* 348-350 go to the console.
ReturnValue == [emails |-> [k \in 1 .. Len(emails) |-> emails[k].email]]

\* the blocks of the run for which parseEmail gave no record
C16_Failures == {k \in 1 .. Len(emailFiles) : ~parseEmail(emailFiles[k].content).ok}

\* C16: at the end of the run the caller is given the four counters of the
\* run: the blocks seen, the header-parse failures, the blocks the classifier
\* excluded and the records emitted.
C16_RunCounters ==
    pc = "done" =>
        /\ {"total", "failures", "self", "emitted"} \subseteq DOMAIN ReturnValue
        /\ ReturnValue.total = Len(emailFiles)
        /\ ReturnValue.failures = Cardinality(C16_Failures)
        /\ ReturnValue.self = skippedSelfEmails
        /\ ReturnValue.emitted = Len(emails)

(***************************************************************************)
(* C17.  A failure is terminal for its block only.                          *)
(***************************************************************************)
\* the positions in the listing, among the first n, of the blocks that give a
\* record the classifier keeps
C17_Kept(n) ==
    {k \in 1 .. n :
        LET r == parseEmail(emailFiles[k].content)
        IN  r.ok /\ ~isSelfEmail(cfg, EmailOf(r))}

\* C17: a block that fails (no header section, a missing required field) gives
\* null and nothing else happens: the blocks after it are processed all the
\* same, so that the run ends after the last block with the records of all
\* the blocks that parse, those listed after a failing block included.
C17_FailureIsLocal ==
    pc \in {"loop", "done"} =>
        /\ {emails[k].blk : k \in 1 .. Len(emails)}
               = {emailFiles[k].blk : k \in C17_Kept(i)}
        /\ Len(emails) = Cardinality(C17_Kept(i))
        /\ pc = "done" => i = Len(emailFiles)

\* a finished run whose first block failed and whose second block is kept
C17_Witness ==
    /\ pc = "done"
    /\ Len(emailFiles) = 2
    /\ ~parseEmail(emailFiles[1].content).ok
    /\ Len(emails) = 1
    /\ emails[1].blk = emailFiles[2].blk

(***************************************************************************)
(* main (lines 777-883): the date filters between parseFile and             *)
(* saveEmailsAsMarkdown.                                                    *)
(***************************************************************************)
MaxEmails == 2      \* emails parseFile returned to main

\* line 838: emailDate && emailDate >= sinceDate
OnOrAfter(emailDate, sinceDate) == emailDate # Null /\ emailDate[1] >= sinceDate[1]

\* line 862 written with <=
NotAfter(emailDate, untilDate) == emailDate # Null /\ emailDate[1] <= untilDate[1]

\* line 862: emailDate && emailDate < untilDate
Before(emailDate, untilDate) == emailDate # Null /\ emailDate[1] < untilDate[1]

\* the Date headers of the emails and the values of the two options; "" is an
\* option that is not given
EmailDates == {"2023-01-01", "2023-01-02", "2023-02-01", "2023-01-02 (UTC)", "soon", ""}
SinceOptions == {"", "2023-01-02", "01/02"}
UntilOptions == {"", "2023-01-02", "2023-02-01", "02/01"}

\* the arrays parseFile may return: the records in the order of the array
EmailLists ==
    {[k \in 1 .. Len(q) |->
         [blk |-> k,
          email |-> [subject |-> NoSubject, from |-> "a@x.io", to |-> "b@x.io",
                     date |-> q[k], messageId |-> "", body |-> "",
                     headers |-> EmptyHeaders]]] :
        q \in SeqsUpTo(EmailDates, MaxEmails)}

InitMain ==
    /\ cfg = FileConfig
    /\ archive = ""
    /\ tempDir = "removed"
    /\ csplitRuns = TRUE
    /\ pieces = <<>>
    /\ blockIn = ""
    /\ emailFiles = <<>>
    /\ i = 0
    /\ emails \in EmailLists
    /\ skippedSelfEmails = 0
    /\ last = NoLast
    /\ selfIn = NoEmail
    /\ selfOut = FALSE
    /\ strIn = ""
    /\ strOut = ""
    /\ dateComments \in BOOLEAN
    /\ sinceDateStr \in SinceOptions
    /\ untilDateStr \in UntilOptions
    /\ parsed = emails
    /\ saved = <<>>
    /\ sourceFiles = <<>>
    /\ emailsPerFile = 0
    /\ batchStart = 0
    /\ fileCounter = 0
    /\ processedEmails = 0
    /\ batches = <<>>
    /\ OutputsIdle
    /\ pc = "since"

llmVars == <<sourceFiles, emailsPerFile, batchStart, fileCounter, processedEmails, batches>>

\* lines 826-847: the since-date filter; an invalid date ends the run with
\* Deno.exit(1)
FilterSince ==
    /\ pc = "since"
    /\ IF sinceDateStr = "" THEN pc' = "until" /\ parsed' = parsed
       ELSE LET sinceDate == DateParse(sinceDateStr, dateComments)
                Keep(e) == OnOrAfter(parseDate(e.email.date, dateComments), sinceDate)
            IN  IF sinceDate = Null THEN pc' = "exit" /\ parsed' = parsed
                ELSE pc' = "until" /\ parsed' = SelectSeq(parsed, Keep)
    /\ UNCHANGED <<parserVars, llmVars, strIn, strOut, dateComments, sinceDateStr,
                   untilDateStr, saved>>

\* lines 850-870: the until-date filter
FilterUntil ==
    /\ pc = "until"
    /\ IF untilDateStr = "" THEN pc' = "save" /\ parsed' = parsed
       ELSE LET untilDate == DateParse(untilDateStr, dateComments)
                Keep(e) == Before(parseDate(e.email.date, dateComments), untilDate)
            IN  IF untilDate = Null THEN pc' = "exit" /\ parsed' = parsed
                ELSE pc' = "save" /\ parsed' = SelectSeq(parsed, Keep)
    /\ UNCHANGED <<parserVars, llmVars, strIn, strOut, dateComments, sinceDateStr,
                   untilDateStr, saved>>

\* line 874: generator.saveEmailsAsMarkdown(emails, outputDir)
SaveEmails ==
    /\ pc = "save"
    /\ saved' = parsed
    /\ pc' = "saved"
    /\ UNCHANGED <<parserVars, llmVars, strIn, strOut, dateComments, sinceDateStr,
                   untilDateStr, parsed>>

NextMain ==
    \/ FilterSince
    \/ FilterUntil
    \/ SaveEmails

SpecMain == InitMain /\ [][NextMain]_vars

(***************************************************************************)
(* C18.  The date filters.                                                  *)
(***************************************************************************)
\* the day an email is dated, <<>> when its date cannot be parsed
C18_Day(e) == parseDate(e.email.date, dateComments)

\* the email passes the filters that are given
C18_Wanted(e) ==
    /\ sinceDateStr # "" =>
           /\ C18_Day(e) # Null
           /\ C18_Day(e)[1] >= DateParse(sinceDateStr, dateComments)[1]
    /\ untilDateStr # "" =>
           /\ C18_Day(e) # Null
           /\ C18_Day(e)[1] < DateParse(untilDateStr, dateComments)[1]

\* C18: the emails saved are exactly the emails dated on or after the since
\* date, when it is given, and strictly before the until date, when it is
\* given; an email whose date cannot be parsed is not saved when a filter is
\* given, and every email is saved when none is.
C18_DateFilters ==
    pc = "saved" =>
        /\ \A k \in 1 .. Len(emails) :
               C18_Wanted(emails[k]) <=> \E j \in 1 .. Len(saved) : saved[j] = emails[k]
        /\ \A j \in 1 .. Len(saved) : \E k \in 1 .. Len(emails) : saved[j] = emails[k]
        /\ \A j, k \in 1 .. Len(saved) : j < k => saved[j].blk < saved[k].blk

\* both filters given: an email dated on the until date is left out, an email
\* dated on the since date is saved
C18_Witness ==
    /\ pc = "saved"
    /\ sinceDateStr = "2023-01-02"
    /\ untilDateStr = "2023-02-01"
    /\ Len(emails) = 2
    /\ emails[1].email.date = "2023-02-01"
    /\ emails[2].email.date = "2023-01-02"
    /\ saved = <<emails[2]>>

(***************************************************************************)
(* The consolidation script (src/unnamed/part_000, lines 11-91).            *)
(***************************************************************************)
TARGET_FILE_COUNT == 300
MaxFiles == 4       \* the small numbers of email files run from 0 to this

\* n / d rounded down, at least 1
FloorOrOne(n, d) == Max(1, n \div d)

\* Math.ceil(n / d) for the numbers of files a directory can hold
Ceil(n, d) == (n + d - 1) \div d

\* line 40: emailFiles.slice(i, i + emailsPerFile)
Chunk(files, start, per) == Slice(files, start, start + per)

\* the numbers of email files: the small ones and those around the multiples
\* of TARGET_FILE_COUNT
FileCounts ==
    (0 .. MaxFiles)
        \cup {k * TARGET_FILE_COUNT + d : k \in 1 .. 3, d \in {-1, 0, 1}}

InitLlm ==
    /\ ParserIdle
    /\ strIn = ""
    /\ strOut = ""
    /\ dateComments = TRUE
    /\ sinceDateStr = ""
    /\ untilDateStr = ""
    /\ parsed = <<>>
    /\ saved = <<>>
    /\ \E n \in FileCounts : sourceFiles = [k \in 1 .. n |-> k]
    /\ emailsPerFile = 0
    /\ batchStart = 0
    /\ fileCounter = 0
    /\ processedEmails = 0
    /\ batches = <<>>
    /\ OutputsIdle
    /\ pc = "plan"

mainVars == <<strIn, strOut, dateComments, sinceDateStr, untilDateStr, parsed, saved>>

\* lines 31-38: emailsPerFile and the start of the loop
PlanBatches ==
    /\ pc = "plan"
    /\ emailsPerFile' = Ceil(Len(sourceFiles), TARGET_FILE_COUNT)
    /\ fileCounter' = 0
    /\ processedEmails' = 0
    /\ batchStart' = 0
    /\ pc' = "batch"
    /\ UNCHANGED <<parserVars, mainVars, sourceFiles, batches>>

\* lines 38-66: one iteration of the loop, one batch file written
WriteBatch ==
    /\ pc = "batch"
    /\ batchStart < Len(sourceFiles)
    /\ LET chunk == Chunk(sourceFiles, batchStart, emailsPerFile)
       IN  /\ batches' = Append(batches, chunk)
           /\ processedEmails' = processedEmails + Len(chunk)
    /\ fileCounter' = fileCounter + 1
    /\ batchStart' = batchStart + emailsPerFile
    /\ UNCHANGED <<parserVars, mainVars, sourceFiles, emailsPerFile, pc>>

\* lines 68-76: the loop is over, the index is written
WriteIndex ==
    /\ pc = "batch"
    /\ batchStart >= Len(sourceFiles)
    /\ pc' = "index"
    /\ UNCHANGED <<parserVars, mainVars, llmVars>>

NextLlm ==
    \/ PlanBatches
    \/ WriteBatch
    \/ WriteIndex

\* the script is one sequential program: it takes its next step when it has one
SpecLlm == InitLlm /\ [][NextLlm]_vars /\ WF_vars(NextLlm)

(***************************************************************************)
(* C19.  The batches.                                                       *)
(***************************************************************************)
\* The batch files hold the first n files of the listing, each once and in
\* listing order (a file is named by its place in the listing): no batch is
\* empty, the places go up by one inside a batch and from a batch to the
\* next, from 1 to n.
C19_Holds(n) ==
    /\ \A b \in 1 .. Len(batches) :
           /\ Len(batches[b]) >= 1
           /\ \A j \in 1 .. Len(batches[b]) - 1 : batches[b][j + 1] = batches[b][j] + 1
    /\ \A b \in 1 .. Len(batches) - 1 :
           batches[b + 1][1] = batches[b][Len(batches[b])] + 1
    /\ IF batches = <<>> THEN n = 0
       ELSE /\ batches[1][1] = 1
            /\ batches[Len(batches)][Len(batches[Len(batches)])] = n

\* what holds while the batch files are written and once they are
C19_Written ==
    /\ Len(batches) = fileCounter
    /\ fileCounter <= TARGET_FILE_COUNT
    /\ C19_Holds(Min(batchStart, Len(sourceFiles)))
    /\ pc = "index" => C19_Holds(Len(sourceFiles))
    /\ (pc = "index" /\ Len(sourceFiles) = 0) => batches = <<>>

\* C19: whatever the number of email files, each of them is in exactly one
\* batch file, in listing order; at most TARGET_FILE_COUNT batch files are
\* written; the loop terminates; with no email file no batch file is written.
C19_Batches == [](pc \in {"batch", "index"} => C19_Written) /\ <>(pc = "index")

\* 301 files make 151 batch files, the last of them with one file
C19_Witness ==
    /\ pc = "index"
    /\ Len(sourceFiles) = TARGET_FILE_COUNT + 1
    /\ emailsPerFile = 2
    /\ fileCounter = 151
    /\ batches[151] = <<301>>

(***************************************************************************)
(* C20.  The end of the header section in the fallback scan.                *)
(***************************************************************************)
\* the lines (from 1) at which the header section ends: a blank line, or a
\* line that is no continuation line and holds no colon
C20_Ends(lines) ==
    {k \in 1 .. Len(lines) :
        \/ Trim(lines[k]) = ""
        \/ /\ ~StartsWith(lines[k], " ") /\ ~StartsWith(lines[k], "\t")
           /\ ~Includes(lines[k], ":")}

\* C20: without a blank-line boundary the header section ends at the earliest
\* blank line or non-continuation line without a colon and is made of the
\* lines before that line (a blank line that ends it may be left at its end);
\* when that line is the first line of the block, the header section is empty
\* and the block is dropped.
C20_ScanBoundary ==
    (pc = "blockdone" /\ ~Includes(last.parse.content, "\n\n")) =>
        LET lines == Split(last.parse.content, "\n")
            ends == C20_Ends(lines)
        IN  ends # {} =>
                LET k == MinOf(ends)
                    before == Join(SubSeq(lines, 1, k - 1), "\n")
                IN  /\ \/ last.parse.headerSection = before
                       \/ /\ Trim(lines[k]) = ""
                          /\ last.parse.headerSection = before \o "\n"
                    /\ k = 1 => (last.parse.headerSection = "" /\ ~last.parse.ok)

(***************************************************************************)
(* parseEmail on blocks with a line about as long as the limit of the       *)
(* fallback scan.                                                           *)
(***************************************************************************)
MaxOver == 1        \* characters by which a line goes beyond HeaderLineLimit

Filler16 == "0123456789abcdef"
Filler64 == Filler16 \o Filler16 \o Filler16 \o Filler16
Filler256 == Filler64 \o Filler64 \o Filler64 \o Filler64

\* a To header, and a line whose only colon is its last character, of n
\* characters each
LongHeader(n) == "To: b" \o SubSeq(Filler256, 1, n - 5)
LateColon(n) == SubSeq(Filler256, 1, n - 1) \o ":"

LongLines ==
    {LongHeader(n) : n \in HeaderLineLimit - 1 .. HeaderLineLimit + MaxOver}
        \cup {LateColon(n) : n \in HeaderLineLimit .. HeaderLineLimit + MaxOver}

\* the blocks: the long line alone, after a From header, before another line
LongBlocks ==
    {sep \o pre \o long \o post :
        sep \in {"", "From x\n"}, pre \in {"", "From: a\n"}, long \in LongLines,
        post \in {"", "\nFrom: a", "\nzz", "\n\nzz"}}

InitLong ==
    /\ cfg = FileConfig
    /\ archive = ""
    /\ pc = "block"
    /\ tempDir = "none"
    /\ csplitRuns = TRUE
    /\ pieces = <<>>
    /\ blockIn \in LongBlocks
    /\ emailFiles = <<>>
    /\ i = 0
    /\ emails = <<>>
    /\ skippedSelfEmails = 0
    /\ last = NoLast
    /\ selfIn = NoEmail
    /\ selfOut = FALSE
    /\ ToolsIdle

SpecLong == InitLong /\ [][NextEmail]_vars

(***************************************************************************)
(* C21.  The header lines of the fallback scan.                             *)
(***************************************************************************)
\* a header line: no white space at its start and a colon within its first
\* HeaderLineLimit characters
C21_HeaderLine(line) ==
    /\ ~StartsWith(line, " ") /\ ~StartsWith(line, "\t")
    /\ \E c \in 1 .. Min(Len(line), HeaderLineLimit) : SubSeq(line, c, c) = ":"

\* C21: in the fallback scan a line is a header line exactly when it does not
\* start with white space and has a colon within its first 200 characters, so
\* that a line of 200 characters or more with such a colon extends the header
\* section: a content made of such lines only is header section as a whole.
C21_ColonWithinLimit ==
    (pc = "blockdone" /\ ~Includes(last.parse.content, "\n\n")) =>
        LET lines == Split(last.parse.content, "\n")
        IN  (\A k \in 1 .. Len(lines) : C21_HeaderLine(lines[k]))
                => last.parse.headerSection = last.parse.content

(***************************************************************************)
(* C22.  The temporary directory.                                           *)
(***************************************************************************)
\* parseFile is between the creation of the directory and its completion
C22_Running == pc \in {"split", "list", "loop"}

\* the removal of the directory was attempted: it is removed, or the removal
\* failed and its error was swallowed
C22_Attempted == tempDir \in {"removed", "leftover"}

\* C22: on every path out of parseFile after the temporary directory was
\* created (normal return, failure of csplit, an exception while a split file
\* is read) the removal of the directory was attempted when parseFile
\* completes, and a path that an error opened ends with the error given to
\* the caller, never with a normal return.
C22_Cleanup ==
    /\ [](C22_Running => tempDir = "exists")
    /\ [](pc \in {"done", "failed"} => C22_Attempted)
    /\ [][(C22_Running /\ ~C22_Running') => pc' \in {"done", "failed"}]_vars
    /\ [][(pc = "split" /\ ~csplitRuns) => pc' = "failed"]_vars
    /\ [][(pc = "loop" /\ i < Len(emailFiles) /\ pc' # "loop") => pc' = "failed"]_vars
    /\ [][(pc # "done" /\ pc' = "done") => (pc = "loop" /\ i = Len(emailFiles))]_vars

\* a split file could not be read after a first block was processed, and the
\* removal of the directory failed as well: the error of the read is thrown
C22_Witness ==
    /\ pc = "failed"
    /\ csplitRuns
    /\ i = 1
    /\ Len(emailFiles) = 2
    /\ tempDir = "leftover"

(***************************************************************************)
(* MarkdownGenerator.saveEmailsAsMarkdown (lines 663-683), generateFilename *)
(* (lines 685-695) and createIndexFile (lines 754-773).                     *)
(***************************************************************************)
MaxSaved == 2       \* emails given to saveEmailsAsMarkdown

RECURSIVE DigitsOf(_)
\* String(n) of a natural number
DigitsOf(n) ==
    IF n < 10 THEN CharAt(Digits, n)
    ELSE DigitsOf(n \div 10) \o CharAt(Digits, n % 10)

RECURSIVE PadStart(_, _, _)
\* s.padStart(n, c)
PadStart(s, n, c) == IF Len(s) >= n THEN s ELSE PadStart(c \o s, n, c)

\* date.toISOString().split('T')[0] of a date read by IsoDate
IsoDay(date) ==
    PadStart(DigitsOf(date[1] \div 372), 4, "0") \o "-"
        \o PadStart(DigitsOf(((date[1] \div 31) % 12) + 1), 2, "0") \o "-"
        \o PadStart(DigitsOf((date[1] % 31) + 1), 2, "0")

\* lines 692 and 761: the day of the date, or the text for no date
DateStr(date) == IF date # Null THEN IsoDay(date) ELSE "unknown-date"

RECURSIVE RemoveSpecialChars(_)
\* .replace(/[^a-zA-Z0-9\s-]/g, '')
RemoveSpecialChars(s) ==
    IF s = "" THEN ""
    ELSE (IF \/ IsLetter(CharAt(s, 0))
             \/ IsDigit(CharAt(s, 0))
             \/ CharAt(s, 0) \in WhiteSpace
             \/ CharAt(s, 0) = "-"
          THEN CharAt(s, 0) ELSE "")
         \o RemoveSpecialChars(SubstringFrom(s, 1))

RECURSIVE ReplaceSpaces(_, _)
\* .replace(/\s+/g, with): each run of white space becomes one with
ReplaceSpaces(s, with) ==
    IF s = "" THEN ""
    ELSE IF CharAt(s, 0) \in WhiteSpace
    THEN (IF CharAt(s, 1) \in WhiteSpace THEN "" ELSE with)
         \o ReplaceSpaces(SubstringFrom(s, 1), with)
    ELSE CharAt(s, 0) \o ReplaceSpaces(SubstringFrom(s, 1), with)

\* lines 688-691: the subject made safe for a file name
SafeSubject(subject) == Substring(ReplaceSpaces(RemoveSpecialChars(subject), "-"), 0, 50)

\* the number before the name counted from zero
PrefixFromZero(index) == PadStart(DigitsOf(index), 4, "0")

\* line 694: String(index + 1).padStart(4, '0')
IndexPrefix(index) == PadStart(DigitsOf(index + 1), 4, "0")

\* MarkdownGenerator.generateFilename
generateFilename(email, index, comments) ==
    IndexPrefix(index) \o "-" \o DateStr(parseDate(email.date, comments)) \o "-"
        \o OrElse(SafeSubject(email.subject), "no-subject") \o ".md"

\* lines 762-763: the line of one email in INDEX.md
IndexLine(email, index, comments) ==
    "- [" \o DateStr(parseDate(email.date, comments)) \o "] [" \o email.subject
        \o "](./" \o generateFilename(email, index, comments) \o ") - From: " \o email.from

\* lines 755-770: the content of INDEX.md
IndexFileContent(list, comments) ==
    "# Email Archive Index\n\nTotal emails: " \o DigitsOf(Len(list))
        \o "\n\n## Emails by Date\n\n"
        \o Join([k \in 1 .. Len(list) |-> IndexLine(list[k].email, k - 1, comments)], "\n")
        \o "\n"

\* subjects with characters a file name does not keep, with runs of white
\* space, with nothing left of them, longer than 50 characters
SaveSubjects ==
    {"Re: Hello,  world?", "???",
     "A subject line of more than fifty characters - cut by substring"}
SaveDates == {"2023-01-02", "2023-11-30 (UTC)", "soon"}

\* the arrays main may give to saveEmailsAsMarkdown; the same email may come
\* twice
SaveLists ==
    {[k \in 1 .. Len(q) |->
         [blk |-> k,
          email |-> [subject |-> q[k][1], from |-> "a@x.io", to |-> "b@x.io",
                     date |-> q[k][2], messageId |-> "", body |-> "",
                     headers |-> EmptyHeaders]]] :
        q \in SeqsUpTo(SaveSubjects \X SaveDates, MaxSaved)}

InitSave ==
    /\ ParserIdle
    /\ GroupingIdle
    /\ strIn = ""
    /\ strOut = ""
    /\ dateComments \in BOOLEAN
    /\ sinceDateStr = ""
    /\ untilDateStr = ""
    /\ saved \in SaveLists
    /\ parsed = saved
    /\ sourceFiles = <<>>
    /\ emailsPerFile = 0
    /\ batchStart = 0
    /\ fileCounter = 0
    /\ processedEmails = 0
    /\ batches = <<>>
    /\ outputFiles = <<>>
    /\ indexContent = ""
    /\ pc = "save"

parsingVars == <<cfg, archive, tempDir, csplitRuns, pieces, blockIn, emailFiles, i, emails,
                 skippedSelfEmails, last, selfIn, selfOut>>

\* lines 664-666: the output directory is made
EnsureDir ==
    /\ pc = "save"
    /\ pc' = "write"
    /\ UNCHANGED <<parsingVars, mainVars, llmVars, generatorVars, groupingVars>>

\* lines 668-680: one iteration of the loop, one file written; the loop index
\* is the number of the files written so far
WriteEmail ==
    /\ pc = "write"
    /\ Len(outputFiles) < Len(saved)
    /\ outputFiles' =
           Append(outputFiles,
                  [name |-> generateFilename(saved[Len(outputFiles) + 1].email,
                                             Len(outputFiles), dateComments),
                   blk |-> saved[Len(outputFiles) + 1].blk])
    /\ UNCHANGED <<parsingVars, mainVars, llmVars, groupingVars, indexContent, pc>>

\* line 682 and lines 754-773: the loop is over, INDEX.md is written
CreateIndexFile ==
    /\ pc = "write"
    /\ Len(outputFiles) = Len(saved)
    /\ indexContent' = IndexFileContent(saved, dateComments)
    /\ pc' = "saved"
    /\ UNCHANGED <<parsingVars, mainVars, llmVars, groupingVars, outputFiles>>

NextSave == EnsureDir \/ WriteEmail \/ CreateIndexFile

SpecSave == InitSave /\ [][NextSave]_vars

(***************************************************************************)
(* C23.  File names and index links.                                        *)
(***************************************************************************)
\* the number a file name starts with: the digits before its first hyphen
C23_Prefix(name) == ParseDigits(Substring(name, 0, IndexOf(name, "-")))

\* s ends with t
C23_EndsWith(s, t) == Len(s) >= Len(t) /\ SubSeq(s, Len(s) - Len(t) + 1, Len(s)) = t

\* the lines of INDEX.md that list the emails: those after the six lines of
\* the heading
C23_Entries == SubSeq(Split(indexContent, "\n"), 7, 6 + Len(saved))

\* C23: the names of the files saveEmailsAsMarkdown writes are pairwise
\* distinct, the numbers they start with are 1..n in the order of the list it
\* was given, and the link of each line of INDEX.md is the name of the file
\* written for the email of that line.
C23_NamesAndLinks ==
    /\ \A a, b \in 1 .. Len(outputFiles) :
           outputFiles[a].name = outputFiles[b].name => a = b
    /\ \A k \in 1 .. Len(outputFiles) :
           /\ C23_Prefix(outputFiles[k].name) = k
           /\ outputFiles[k].blk = saved[k].blk
    /\ pc = "saved" =>
           /\ Len(outputFiles) = Len(saved)
           /\ Len(Split(indexContent, "\n")) = 7 + Max(Len(saved), 1)
           /\ \A k \in 1 .. Len(saved) :
                  C23_EndsWith(C23_Entries[k],
                               "](./" \o outputFiles[k].name \o ") - From: "
                                   \o saved[k].email.from)

\* the same email was given twice; both files and the index are written
C23_Witness ==
    /\ pc = "saved"
    /\ Len(saved) = 2
    /\ saved[1].email = saved[2].email
    /\ saved[1].email.subject = "Re: Hello,  world?"
    /\ outputFiles[1].name = "0001-2023-01-02-Re-Hello-world.md"
    /\ outputFiles[2].name = "0002-2023-01-02-Re-Hello-world.md"

(***************************************************************************)
(* The grouping script: groupEmails (lines 124-174), processEmailsInChunks  *)
(* (lines 202-251) and mergeGroups (lines 254-294).                         *)
(***************************************************************************)
MaxGroupEmails == 3   \* markdown files in the directory
MaxChunks == 2        \* largest chunkSize

RECURSIVE RemovePunctuation(_)
\* .replace(/[^\w\s]/g, '')
RemovePunctuation(s) ==
    IF s = "" THEN ""
    ELSE (IF \/ IsLetter(CharAt(s, 0))
             \/ IsDigit(CharAt(s, 0))
             \/ CharAt(s, 0) = "_"
             \/ CharAt(s, 0) \in WhiteSpace
          THEN CharAt(s, 0) ELSE "")
         \o RemovePunctuation(SubstringFrom(s, 1))

\* lines 65-71
normalizeText(text) == Trim(ReplaceSpaces(RemovePunctuation(ToLowerCase(text)), " "))

\* lines 77-95
stopwords ==
    {"a", "about", "above", "after", "again", "against", "all", "am", "an", "and",
     "any", "are", "aren't", "as", "at", "be", "because", "been", "before", "being",
     "below", "between", "both", "but", "by", "can't", "cannot", "could", "couldn't",
     "did", "didn't", "do", "does", "doesn't", "doing", "don't", "down", "during",
     "each", "few", "for", "from", "further", "had", "hadn't", "has", "hasn't", "have",
     "haven't", "having", "he", "he'd", "he'll", "he's", "her", "here", "here's", "hers",
     "herself", "him", "himself", "his", "how", "how's", "i", "i'd", "i'll", "i'm", "i've",
     "if", "in", "into", "is", "isn't", "it", "it's", "its", "itself", "let's", "me", "more",
     "most", "mustn't", "my", "myself", "no", "nor", "not", "of", "off", "on", "once", "only",
     "or", "other", "ought", "our", "ours", "ourselves", "out", "over", "own", "same", "shan't",
     "she", "she'd", "she'll", "she's", "should", "shouldn't", "so", "some", "such", "than",
     "that", "that's", "the", "their", "theirs", "them", "themselves", "then", "there", "there's",
     "these", "they", "they'd", "they'll", "they're", "they've", "this", "those", "through", "to",
     "too", "under", "until", "up", "very", "was", "wasn't", "we", "we'd", "we'll", "we're", "we've",
     "were", "weren't", "what", "what's", "when", "when's", "where", "where's", "which", "while",
     "who", "who's", "whom", "why", "why's", "with", "won't", "would", "wouldn't", "you", "you'd",
     "you'll", "you're", "you've", "your", "yours", "yourself", "yourselves", "re", "fw"}

\* line 100
IsKeyword(word) == Len(word) > 2 /\ word \notin stopwords

\* lines 74-101
extractKeywords(subject) == SelectSeq(Split(normalizeText(subject), " "), IsKeyword)

\* new Set(keywords)
SetOf(keywords) == {keywords[k] : k \in 1 .. Len(keywords)}

\* A number is a fraction <<numerator, denominator>>; one with denominator 0
\* is NaN.  a >= b, which is false when one of them is NaN.
AtLeast(a, b) == a[2] # 0 /\ b[2] # 0 /\ a[1] * b[2] >= b[1] * a[2]

\* lines 111-120 and 261-270: intersection.size / union.size
Jaccard(set1, set2) == <<Cardinality(set1 \cap set2), Cardinality(set1 \cup set2)>>

\* lines 104-121
calculateSimilarity(subject1, subject2) ==
    IF extractKeywords(subject1) = <<>> \/ extractKeywords(subject2) = <<>> THEN <<0, 1>>
    ELSE Jaccard(SetOf(extractKeywords(subject1)), SetOf(extractKeywords(subject2)))

RECURSIVE AddKeywords(_, _)
\* lines 153-158 and 278-282: the keywords not yet in the list are pushed
AddKeywords(keywords, others) ==
    IF others = <<>> THEN keywords
    ELSE AddKeywords(IF Head(others) \in SetOf(keywords) THEN keywords
                     ELSE Append(keywords, Head(others)),
                     Tail(others))

\* the count of a group that took the emails of another one and kept its own
KeptCount(count, added) == count

\* lines 149 and 275: group.count++, existingGroup.count += newGroup.count
AddedCount(count, added) == count + added

\* lines 148-158: otherEmail joins the group
GroupWith(group, otherEmail) ==
    [name |-> group.name,
     count |-> AddedCount(group.count, 1),
     emails |-> Append(group.emails, otherEmail),
     keywords |-> AddKeywords(group.keywords, extractKeywords(otherEmail.subject))]

RECURSIVE FindSimilar(_, _, _, _, _)
\* lines 143-160: the inner loop from the k-th email on; st holds the group and
\* the set processedEmails
FindSimilar(list, k, email, limit, st) ==
    IF k > Len(list) THEN st
    ELSE IF list[k].filePath \in st.processed
    THEN FindSimilar(list, k + 1, email, limit, st)
    ELSE IF AtLeast(calculateSimilarity(email.subject, list[k].subject), limit)
    THEN FindSimilar(list, k + 1, email, limit,
                     [group |-> GroupWith(st.group, list[k]),
                      processed |-> st.processed \cup {list[k].filePath}])
    ELSE FindSimilar(list, k + 1, email, limit, st)

\* lines 163-167
NamedGroup(group, n) ==
    [group EXCEPT !.name = IF Len(group.keywords) > 0
                           THEN Join(Slice(group.keywords, 0, 3), " ")
                           ELSE "Group " \o DigitsOf(n + 1)]

\* lines 133-140: the group an email starts
NewGroup(email) ==
    [name |-> "", count |-> 1, emails |-> <<email>>,
     keywords |-> extractKeywords(email.subject)]

\* lines 169: the group is pushed; the loop goes on with the set processedEmails
GroupsAfter(groups, st) ==
    [groups |-> Append(groups, NamedGroup(st.group, Len(groups))),
     processed |-> st.processed]

RECURSIVE GroupLoop(_, _, _, _)
\* lines 128-170: the outer loop from the k-th email on
GroupLoop(list, k, limit, acc) ==
    IF k > Len(list) THEN acc.groups
    ELSE IF list[k].filePath \in acc.processed THEN GroupLoop(list, k + 1, limit, acc)
    ELSE GroupLoop(list, k + 1, limit,
                   GroupsAfter(acc.groups,
                               FindSimilar(list, 1, list[k], limit,
                                           [group |-> NewGroup(list[k]),
                                            processed |-> acc.processed
                                                              \cup {list[k].filePath}])))

RECURSIVE InsertByCount(_, _)
\* group put into a list sorted by falling count, after the groups of its count
InsertByCount(sorted, group) ==
    IF sorted = <<>> THEN <<group>>
    ELSE IF Head(sorted).count >= group.count
    THEN <<Head(sorted)>> \o InsertByCount(Tail(sorted), group)
    ELSE <<group>> \o sorted

RECURSIVE SortByCount(_, _)
\* lines 173 and 311: groups.sort((a, b) => b.count - a.count), a stable sort
SortByCount(groups, sorted) ==
    IF groups = <<>> THEN sorted
    ELSE SortByCount(Tail(groups), InsertByCount(sorted, Head(groups)))

\* groupEmails
groupEmails(list, limit) ==
    SortByCount(GroupLoop(list, 1, limit, [groups |-> <<>>, processed |-> {}]), <<>>)

\* lines 259-272: the first existing group similar to newGroup, 0 for none
SimilarGroup(existingGroups, newGroup, limit) ==
    LET similar == {j \in 1 .. Len(existingGroups) :
                       AtLeast(Jaccard(SetOf(existingGroups[j].keywords),
                                       SetOf(newGroup.keywords)), limit)}
    IN  IF similar = {} THEN 0 ELSE MinOf(similar)

\* lines 273-282: newGroup goes into existingGroup
MergedGroup(existingGroup, newGroup) ==
    [name |-> existingGroup.name,
     count |-> AddedCount(existingGroup.count, newGroup.count),
     emails |-> existingGroup.emails \o newGroup.emails,
     keywords |-> AddKeywords(existingGroup.keywords, newGroup.keywords)]

\* lines 256-292: one iteration of the loop of mergeGroups; j is the similar
\* group
MergeInto(existingGroups, newGroup, j) ==
    IF j = 0 THEN Append(existingGroups, newGroup)
    ELSE [existingGroups EXCEPT ![j] = MergedGroup(existingGroups[j], newGroup)]

RECURSIVE mergeGroups(_, _, _)
\* mergeGroups: the array existingGroups after the call
mergeGroups(existingGroups, newGroups, limit) ==
    IF newGroups = <<>> THEN existingGroups
    ELSE mergeGroups(MergeInto(existingGroups, Head(newGroups),
                               SimilarGroup(existingGroups, Head(newGroups), limit)),
                     Tail(newGroups), limit)

\* lines 34-62: the metadata of a markdown file, Null for a file without a
\* subject line
extractMetadata(file) ==
    IF file.subject = "" THEN Null
    ELSE Some([subject |-> file.subject, from |-> "a@x.io", to |-> "b@x.io",
               date |-> "", filePath |-> file.filePath])

\* line 229
HasMetadata(file) == extractMetadata(file) # Null

\* lines 227-232: chunkEmails
ChunkEmails(chunk) ==
    LET found == SelectSeq(chunk, HasMetadata)
    IN  [k \in 1 .. Len(found) |-> extractMetadata(found[k])[1]]

\* line 221: emailFiles.slice(i, i + chunkSize)
FileChunk(files, start, size) == Slice(files, start, start + size)

\* the subject lines of the markdown files; "" is a file without one
GroupSubjects ==
    {"Budget plan 2024", "RE: budget plan 2024!", "Budget meeting", "Hi", ""}

\* --threshold: the default, a low one and zero
Thresholds == {<<7, 10>>, <<1, 4>>, <<0, 1>>}

\* --chunkSize: chunks of one file and larger ones
ChunkSizes == {1, MaxChunks}

\* the directory: files with distinct paths
Directories ==
    {[k \in 1 .. Len(q) |-> [filePath |-> "e" \o DigitsOf(k) \o ".md", subject |-> q[k]]] :
        q \in SeqsUpTo(GroupSubjects, MaxGroupEmails)}

InitGroup ==
    /\ ParserIdle
    /\ ScriptsIdle
    /\ GeneratorIdle
    /\ strIn = ""
    /\ strOut = ""
    /\ dateComments = TRUE
    /\ mdFiles \in Directories
    /\ chunkSize \in ChunkSizes
    /\ threshold \in Thresholds
    /\ chunkStart = 0
    /\ chunkGroups = <<>>
    /\ allGroups = <<>>
    /\ pc = "walk"

\* lines 205-217: the files are listed, the loop starts
WalkDir ==
    /\ pc = "walk"
    /\ chunkStart' = 0
    /\ allGroups' = <<>>
    /\ pc' = "chunk"
    /\ UNCHANGED <<parsingVars, mainVars, llmVars, generatorVars, mdFiles, chunkSize,
                   threshold, chunkGroups>>

\* what lines 238-243 make of allGroups
MergedChunk(groups, list, limit) ==
    IF Len(list) > 0 THEN mergeGroups(groups, groupEmails(list, limit), limit) ELSE groups

\* lines 220-248: one iteration of the loop, one chunk grouped and merged
ProcessChunk ==
    /\ pc = "chunk"
    /\ chunkStart < Len(mdFiles)
    /\ chunkGroups' = groupEmails(ChunkEmails(FileChunk(mdFiles, chunkStart, chunkSize)),
                                  threshold)
    /\ allGroups' = MergedChunk(allGroups,
                                ChunkEmails(FileChunk(mdFiles, chunkStart, chunkSize)),
                                threshold)
    /\ chunkStart' = chunkStart + chunkSize
    /\ UNCHANGED <<parsingVars, mainVars, llmVars, generatorVars, mdFiles, chunkSize,
                   threshold, pc>>

\* lines 250 and 306-311: the groups are returned and sorted
SortGroups ==
    /\ pc = "chunk"
    /\ chunkStart >= Len(mdFiles)
    /\ allGroups' = SortByCount(allGroups, <<>>)
    /\ pc' = "report"
    /\ UNCHANGED <<parsingVars, mainVars, llmVars, generatorVars, mdFiles, chunkSize,
                   threshold, chunkStart, chunkGroups>>

NextGroup == WalkDir \/ ProcessChunk \/ SortGroups

SpecGroup == InitGroup /\ [][NextGroup]_vars

(***************************************************************************)
(* C24.  The groups are a partition.                                        *)
(***************************************************************************)
\* the places <<g, j>> of the emails in an array of groups
C24_Places(groups) ==
    {p \in (1 .. Len(groups)) \X (1 .. MaxGroupEmails + 1) : p[2] <= Len(groups[p[1]].emails)}

\* the paths of the files among the first n that have metadata
C24_Paths(from, to) ==
    {mdFiles[k].filePath : k \in {m \in Max(from, 1) .. Min(to, Len(mdFiles)) : mdFiles[m].subject # ""}}

\* groups is a partition of the files of paths: each place holds one of them,
\* each of them has one place, no group is empty, count is the number of emails
C24_Partition(groups, paths) ==
    /\ \A p \in C24_Places(groups) : groups[p[1]].emails[p[2]].filePath \in paths
    /\ \A f \in paths :
           Cardinality({p \in C24_Places(groups) :
                            groups[p[1]].emails[p[2]].filePath = f}) = 1
    /\ \A g \in 1 .. Len(groups) :
           /\ Len(groups[g].emails) > 0
           /\ groups[g].count = Len(groups[g].emails)

\* the fraction of the keywords of two subjects that both have
C24_Similarity(a, b) ==
    LET ka == SetOf(extractKeywords(a))
        kb == SetOf(extractKeywords(b))
    IN  IF ka = {} \/ kb = {} THEN <<0, 1>>
        ELSE <<Cardinality(ka \cap kb), Cardinality(ka \cup kb)>>

\* C24: with distinct file paths, the groups groupEmails makes of a chunk and
\* the groups kept after any number of mergeGroups calls are a partition of
\* the emails with metadata read so far: each email is in exactly one group,
\* no group is empty, count is the number of emails of the group; in the
\* groups of a chunk every member but the first has a keyword similarity of
\* at least the threshold with the first.
C24_GroupsPartition ==
    pc \in {"chunk", "report"} =>
        /\ C24_Partition(allGroups, C24_Paths(1, chunkStart))
        /\ C24_Partition(chunkGroups, C24_Paths(chunkStart - chunkSize + 1, chunkStart))
        /\ \A g \in 1 .. Len(chunkGroups) :
               \A j \in 2 .. Len(chunkGroups[g].emails) :
                   LET sim == C24_Similarity(chunkGroups[g].emails[1].subject,
                                             chunkGroups[g].emails[j].subject)
                   IN  sim[1] * threshold[2] >= threshold[1] * sim[2]

\* two similar emails of one chunk were grouped, and the group of a later
\* chunk was merged into theirs
C24_Witness ==
    /\ pc = "report"
    /\ chunkSize = 2
    /\ threshold = <<7, 10>>
    /\ Len(allGroups) = 1
    /\ allGroups[1].count = 3
    /\ Len(chunkGroups) = 1
    /\ chunkGroups[1].count = 1

(***************************************************************************)
(* C25.  One outcome for each block.                                        *)
(***************************************************************************)
\* the blocks among the first n of the listing for which parseEmail gives null
C25_Failures(n) == {k \in 1 .. n : ~parseEmail(emailFiles[k].content).ok}

\* the three outcomes of the iteration that handles the block file
C25_Failed(file) ==
    /\ ~parseEmail(file.content).ok
    /\ emails' = emails
    /\ skippedSelfEmails' = skippedSelfEmails

C25_Skipped(file) ==
    /\ parseEmail(file.content).ok
    /\ emails' = emails
    /\ skippedSelfEmails' = skippedSelfEmails + 1

C25_Emitted(file) ==
    /\ parseEmail(file.content).ok
    /\ Len(emails') = Len(emails) + 1
    /\ emails'[Len(emails')].blk = file.blk
    /\ SubSeq(emails', 1, Len(emails)) = emails
    /\ skippedSelfEmails' = skippedSelfEmails

\* C25: every block parseFile handles has exactly one outcome, a parse
\* failure, a skip as self email or a record: after each iteration the skipped
\* and the kept emails are no more than the blocks handled, the blocks handled
\* are the failures, the skipped and the kept ones together, so at the end
\* the number of blocks is the sum of the three; no block is kept twice, and
\* no iteration both counts a block as skipped and keeps it.
C25_OneOutcome ==
    /\ [](pc \in {"loop", "done", "failed"} /\ csplitRuns =>
            /\ skippedSelfEmails + Len(emails) <= i
            /\ i = Cardinality(C25_Failures(i)) + skippedSelfEmails + Len(emails)
            /\ \A a, b \in 1 .. Len(emails) : emails[a].blk = emails[b].blk => a = b)
    /\ [](pc = "done" =>
            Len(emailFiles) = Cardinality(C25_Failures(Len(emailFiles)))
                                  + skippedSelfEmails + Len(emails))
    /\ [][(pc = "loop" /\ i' = i + 1) =>
            \/ C25_Failed(emailFiles[i + 1]) /\ ~C25_Skipped(emailFiles[i + 1])
                   /\ ~C25_Emitted(emailFiles[i + 1])
            \/ C25_Skipped(emailFiles[i + 1]) /\ ~C25_Emitted(emailFiles[i + 1])
            \/ C25_Emitted(emailFiles[i + 1]) /\ ~C25_Skipped(emailFiles[i + 1])]_vars

\* a run over two blocks ended: one was skipped as self email, one was kept
C25_Witness ==
    /\ pc = "done"
    /\ Len(emailFiles) = 2
    /\ skippedSelfEmails = 1
    /\ Len(emails) = 1
    /\ C25_Failures(2) = {}

====
